---- MODULE Spec2Model ----
(***************************************************************************)
(* FFAB container: the two encoders (ffab_encoder.py, tools/ffab_encoder.py), *)
(* the decoder (ffab_decoder.py) and the inspector (ffab_info.py).           *)
(* A file is a sequence of bytes (0..255); all multi-byte fields are         *)
(* big-endian, as struct.pack('>...') lays them out.                         *)
(***************************************************************************)
EXTENDS Integers, Sequences, FiniteSets, TLC

\* ---------------------------------------------------------------- bounds
\* The largest number of frames in a frame set or a mock container.
MaxFrames == 2
\* The largest payload (codec output after its 16-byte preamble), in bytes.
MaxPayloadLen == 2

\* ------------------------------------------------------- program constants
FFAB_MAGIC == 65451
FFAB_VERSION_0x0001 == 1
\* struct format 'H': an unsigned 16-bit field.
U16_MAX == 65535
\* The length of the .astc preamble the codec puts before the payload.
ASTC_HEADER_LEN == 16
\* 4 + 8: the index table starts after the header and the MetaBlock.
INDEX_START_OFFSET == 12
\* One index entry: offset (8 bytes) + length (4 bytes).
INDEX_ENTRY_SIZE == 12

\* ASTC_FORMAT_CODES: block-tile name -> code.
ASTC_FORMAT_CODES ==
    [n \in {"4x4", "5x4", "5x5", "6x5", "6x6", "8x5", "8x6", "8x8",
            "10x5", "10x6", "10x8", "10x10", "12x10", "12x12"} |->
        CASE n = "4x4" -> 1 [] n = "5x4" -> 2 [] n = "5x5" -> 3
          [] n = "6x5" -> 4 [] n = "6x6" -> 5 [] n = "8x5" -> 6
          [] n = "8x6" -> 7 [] n = "8x8" -> 8 [] n = "10x5" -> 9
          [] n = "10x6" -> 10 [] n = "10x8" -> 11 [] n = "10x10" -> 12
          [] n = "12x10" -> 13 [] n = "12x12" -> 14]

\* tools/ffab_encoder.py's copy of ASTC_FORMAT_CODES.
tools_ASTC_FORMAT_CODES ==
    "4x4" :> 1 @@ "5x4" :> 2 @@ "5x5" :> 3 @@ "6x5" :> 4 @@ "6x6" :> 5
      @@ "8x5" :> 6 @@ "8x6" :> 7 @@ "8x8" :> 8 @@ "10x5" :> 9 @@ "10x6" :> 10
      @@ "10x8" :> 11 @@ "10x10" :> 12 @@ "12x10" :> 13 @@ "12x12" :> 14

\* A decoder table with the codes of 12x10 and 12x12 in each other's place.
dec_ASTC_FORMAT_CODES_Swapped ==
    "4x4" :> 1 @@ "5x4" :> 2 @@ "5x5" :> 3 @@ "6x5" :> 4 @@ "6x6" :> 5
      @@ "8x5" :> 6 @@ "8x6" :> 7 @@ "8x8" :> 8 @@ "10x5" :> 9 @@ "10x6" :> 10
      @@ "10x8" :> 11 @@ "10x10" :> 12 @@ "12x10" :> 14 @@ "12x12" :> 13

\* ffab_decoder.py's copy of ASTC_FORMAT_CODES.
dec_ASTC_FORMAT_CODES ==
    "4x4" :> 1 @@ "5x4" :> 2 @@ "5x5" :> 3 @@ "6x5" :> 4 @@ "6x6" :> 5
      @@ "8x5" :> 6 @@ "8x6" :> 7 @@ "8x8" :> 8 @@ "10x5" :> 9 @@ "10x6" :> 10
      @@ "10x8" :> 11 @@ "10x10" :> 12 @@ "12x10" :> 13 @@ "12x12" :> 14

\* ffab_info.py's copy of ASTC_FORMAT_CODES.
info_ASTC_FORMAT_CODES ==
    "4x4" :> 1 @@ "5x4" :> 2 @@ "5x5" :> 3 @@ "6x5" :> 4 @@ "6x6" :> 5
      @@ "8x5" :> 6 @@ "8x6" :> 7 @@ "8x8" :> 8 @@ "10x5" :> 9 @@ "10x6" :> 10
      @@ "10x8" :> 11 @@ "10x10" :> 12 @@ "12x10" :> 13 @@ "12x12" :> 14

\* {v: k for k, v in table.items()}: a later name overwrites an earlier one
\* with the same code; the names come in the order the table lists them.
FormatOrder ==
    <<"4x4", "5x4", "5x5", "6x5", "6x6", "8x5", "8x6", "8x8",
      "10x5", "10x6", "10x8", "10x10", "12x10", "12x12">>
Inverted(table) ==
    [c \in {table[n] : n \in DOMAIN table} |->
        LET last == CHOOSE i \in 1..Len(FormatOrder) :
                        /\ table[FormatOrder[i]] = c
                        /\ \A j \in (i + 1)..Len(FormatOrder) : table[FormatOrder[j]] # c
        IN FormatOrder[last]]

\* ffab_decoder.py: ASTC_CODE_TO_FORMAT = {v: k for k, v in ASTC_FORMAT_CODES.items()}
ASTC_CODE_TO_FORMAT == Inverted(dec_ASTC_FORMAT_CODES)

\* ffab_info.py: ASTC_CODE_TO_FORMAT = {v: k for k, v in ASTC_FORMAT_CODES.items()}
info_ASTC_CODE_TO_FORMAT == Inverted(info_ASTC_FORMAT_CODES)

\* map(int, astc_format.split('x')): the block width and height a name spells.
BlockDims(astc_format) ==
    CASE astc_format = "4x4" -> <<4, 4>> [] astc_format = "5x4" -> <<5, 4>>
      [] astc_format = "5x5" -> <<5, 5>> [] astc_format = "6x5" -> <<6, 5>>
      [] astc_format = "6x6" -> <<6, 6>> [] astc_format = "8x5" -> <<8, 5>>
      [] astc_format = "8x6" -> <<8, 6>> [] astc_format = "8x8" -> <<8, 8>>
      [] astc_format = "10x5" -> <<10, 5>> [] astc_format = "10x6" -> <<10, 6>>
      [] astc_format = "10x8" -> <<10, 8>> [] astc_format = "10x10" -> <<10, 10>>
      [] astc_format = "12x10" -> <<12, 10>> [] astc_format = "12x12" -> <<12, 12>>
      [] OTHER -> <<7, 7>>

\* ------------------------------------------------------------ byte helpers
Min(a, b) == IF a < b THEN a ELSE b

RECURSIVE SumSeq(_)
SumSeq(s) == IF s = <<>> THEN 0 ELSE Head(s) + SumSeq(Tail(s))

\* b''.join(blocks)
RECURSIVE Join(_)
Join(blocks) == IF blocks = <<>> THEN <<>> ELSE Head(blocks) \o Join(Tail(blocks))

\* The k big-endian bytes of n (struct.pack '>H' k=2, '>I' k=4, '>Q' k=8).
RECURSIVE PackBE(_, _)
PackBE(n, k) == IF k = 0 THEN <<>> ELSE Append(PackBE(n \div 256, k - 1), n % 256)

\* The number a big-endian byte string spells (struct.unpack '>H', '>I', '>Q').
RECURSIVE UnpackBE(_)
UnpackBE(s) ==
    IF s = <<>> THEN 0
    ELSE UnpackBE(SubSeq(s, 1, Len(s) - 1)) * 256 + s[Len(s)]

\* An open that empties the file, as mode 'wb' does.
OpenForRead_Truncating(f) == [exists |-> TRUE, bytes |-> <<>>]

\* open(file_path, 'rb') and the reads under it: the file stays as it is.
OpenForRead(f) == f

\* f.seek(offset); f.read(n): the bytes from offset on, at most n, fewer at EOF.
FileRead(bytes, offset, n) ==
    SubSeq(bytes, offset + 1, Min(offset + n, Len(bytes)))

\* --------------------------------------------------------- preamble (codec)
\* generate_astc_header: magic, block_x, block_y, block_z = 1, width and height
\* as 3 little-endian bytes each, depth 1 0 0.
generate_astc_header(width, height, astc_format) ==
    <<19, 171, 161, 92,
      BlockDims(astc_format)[1], BlockDims(astc_format)[2], 1,
      width % 256, (width \div 256) % 256, (width \div 65536) % 256,
      height % 256, (height \div 256) % 256, (height \div 65536) % 256,
      1, 0, 0>>

\* A preamble with width and height laid out most significant byte first.
dec_generate_astc_header_BigEndian(width, height, astc_format) ==
    <<19, 171, 161, 92,
      BlockDims(astc_format)[1], BlockDims(astc_format)[2], 1,
      (width \div 65536) % 256, (width \div 256) % 256, width % 256,
      (height \div 65536) % 256, (height \div 256) % 256, height % 256,
      1, 0, 0>>

\* The decoder's own copy of generate_astc_header.
dec_generate_astc_header(width, height, astc_format) ==
    <<19, 171, 161, 92,
      BlockDims(astc_format)[1], BlockDims(astc_format)[2], 1,
      width % 256, (width \div 256) % 256, (width \div 65536) % 256,
      height % 256, (height \div 256) % 256, (height \div 65536) % 256,
      1, 0, 0>>

\* ---------------------------------------------------------------- inputs
\* Frame sizes (width, height) of the source images.
DimSet == {<<300, 2>>, <<1, 1>>}
\* Format names handed to the writer; "7x7" is not in ASTC_FORMAT_CODES.
FormatInputs == {"4x4", "12x10", "7x7"}
\* The two encoder copies.
Variants == {"main", "tools"}

RECURSIVE SeqsUpTo(_, _)
SeqsUpTo(S, n) ==
    IF n = 0 THEN {<<>>}
    ELSE LET shorter == SeqsUpTo(S, n - 1)
         IN shorter \cup {Append(s, x) : s \in {t \in shorter : Len(t) = n - 1}, x \in S}

\* Frame sizes at the edges of the MetaBlock's unsigned 16-bit fields: an
\* array with no column, and one a column too wide.
EdgeDimSet == {<<0, 2>>, <<65536, 2>>}

\* An image: its file name (its place in the sorted folder) and its size.
\* A frame set of any sizes of DimSet, or a single frame of an edge size.
ImageLists ==
    {[i \in 1..Len(ds) |-> [name |-> i, width |-> ds[i][1], height |-> ds[i][2]]] :
        ds \in SeqsUpTo(DimSet, MaxFrames) \cup {<<d>> : d \in EdgeDimSet}}

\* A codec payload of len bytes: distinct bytes, wrapping at 256.
Payload(len, seed) == [j \in 1..len |-> (seed + j) % 256]
Payloads == {Payload(len, seed) : len \in 0..MaxPayloadLen, seed \in {0, 254}}
\* The two payloads of the decoder test's mock container: 100 and 150 bytes.
ScenarioPayloads == {Payload(100, 0), Payload(150, 0)}

\* What astcenc may leave in output.astc for a width x height image: the
\* preamble it derives from the image and the block size followed by a payload,
\* a preamble for another width, or a file cut short.
CodecBlobs(width, height, astc_format) ==
    {generate_astc_header(width, height, astc_format) \o p :
         p \in Payloads \cup ScenarioPayloads}
      \cup {generate_astc_header(width + 1, height, astc_format) \o Payload(1, 0)}
      \cup {<<19, 171>>}

\* The file at a path: absent, or its bytes.
NoFile == [exists |-> FALSE, bytes |-> <<>>]
FileOf(bytes) == [exists |-> TRUE, bytes |-> bytes]

\* ----------------------------------------------------------------- state
VARIABLES
    file,               \* the file at the container path
    wpc,                \* writer: idle, compress, open, header, meta, index, data, done, failed
    werr,               \* writer: the error raised, "none" if none
    werr_frames,        \* writer: the frame names the error message holds
    variant,            \* writer: which encoder copy runs
    images,             \* writer: the frame set
    astc_format,        \* writer: the format name
    header,             \* writer: packed FormatHeader
    meta,               \* writer: packed MetaBlock
    index_entries,      \* writer: packed index entries so far
    image_data_blocks,  \* writer: stored payloads so far
    current_offset,     \* writer: offset of the next payload
    codec_blobs,        \* writer: what compress_with_astc returned, per frame
    dpc,                \* decoder: idle, meta, index, frames, done, failed
    derr,               \* decoder: the error raised, "none" if none
    d_version,          \* decoder: the version read_ffab_header returned
    d_meta,             \* decoder: what read_ffab_meta returned
    d_index,            \* decoder: what read_ffab_index_table returned
    d_compressed,       \* decoder: what read_compressed_image_data returned, per frame
    d_astc_in,          \* decoder: the input.astc handed to the codec, per frame
    d_saved,            \* decoder: the frame numbers i saved as frame_{i:04d}.png
    ipc,                \* inspector: idle, meta, index, done, failed
    ierr,               \* inspector: the error raised, "none" if none
    info,               \* inspector: what get_file_info has gathered
    probe,              \* a direct call of a helper: the tables, the preamble
                        \* functions, read_compressed_image_data
    pool,               \* test_ffab.py's process pools: the workers, their
                        \* temporary directories and their outputs
    folder              \* the encoder's input folder: whether it exists and its
                        \* entries in the order iterdir yields them

wvars == <<wpc, werr, werr_frames, variant, images, astc_format, header, meta,
           index_entries, image_data_blocks, current_offset, codec_blobs>>
dvars == <<dpc, derr, d_version, d_meta, d_index, d_compressed, d_astc_in, d_saved>>
ivars == <<ipc, ierr, info>>
vars == <<file, wvars, dvars, ivars, probe, pool, folder>>

\* The tools run one after another on the container path: no reader runs
\* while the writer does, and the writer starts before any reader.
WriterQuiet == wpc \in {"idle", "done", "failed"}
DecoderQuiet == dpc \in {"idle", "done", "failed"}
InfoQuiet == ipc \in {"idle", "done", "failed"}

\* ---------------------------------------------------------------- writer
\* A dimension check that takes the first frame's size and compares nothing.
check_images_dimensions_NoCompare(imgs) ==
    IF imgs = <<>> THEN [err |-> "NoImages", frames |-> <<>>, width |-> 0, height |-> 0]
    ELSE [err |-> "none", frames |-> <<>>,
          width |-> imgs[1].width, height |-> imgs[1].height]

\* A dimension check that lets an empty frame set through.
check_images_dimensions_EmptyPasses(imgs) ==
    IF imgs = <<>> THEN [err |-> "none", frames |-> <<>>, width |-> 0, height |-> 0]
    ELSE IF \E i \in 2..Len(imgs) :
                imgs[i].height # imgs[1].height \/ imgs[i].width # imgs[1].width
         THEN [err |-> "DimensionMismatch", frames |-> <<imgs[1].name>>,
               width |-> 0, height |-> 0]
         ELSE [err |-> "none", frames |-> <<>>,
               width |-> imgs[1].width, height |-> imgs[1].height]

\* create_ffab_file_v1's "if not images" and check_images_dimensions: a frame
\* set is not empty and every image has the size of the first one.
check_images_dimensions(imgs) ==
    IF imgs = <<>> THEN [err |-> "NoImages", frames |-> <<>>, width |-> 0, height |-> 0]
    ELSE LET differs(i) == imgs[i].height # imgs[1].height \/ imgs[i].width # imgs[1].width
         IN IF \E i \in 2..Len(imgs) : differs(i)
            THEN LET first == CHOOSE i \in 2..Len(imgs) :
                                  differs(i) /\ \A j \in 2..(i - 1) : ~differs(j)
                 IN [err |-> "DimensionMismatch",
                     frames |-> <<imgs[1].name, imgs[first].name>>,
                     width |-> 0, height |-> 0]
            ELSE [err |-> "none", frames |-> <<>>,
                  width |-> imgs[1].width, height |-> imgs[1].height]

\* get_astc_format_code: the code of a known name, ValueError otherwise.
get_astc_format_code(format_name) ==
    IF format_name \in DOMAIN ASTC_FORMAT_CODES
    THEN [err |-> "none", code |-> ASTC_FORMAT_CODES[format_name]]
    ELSE [err |-> "InvalidFormat", code |-> 0]

\* tools/ffab_encoder.py's get_astc_format_code, over its own table.
tools_get_astc_format_code(format_name) ==
    IF format_name \in DOMAIN tools_ASTC_FORMAT_CODES
    THEN [err |-> "none", code |-> tools_ASTC_FORMAT_CODES[format_name]]
    ELSE [err |-> "InvalidFormat", code |-> 0]

\* struct.pack('>HH', FFAB_MAGIC, 0x0001)
PackHeader == PackBE(FFAB_MAGIC, 2) \o PackBE(FFAB_VERSION_0x0001, 2)

\* A MetaBlock packed with the count and the width in each other's place.
PackMeta_Swapped(image_count, width, height, astc_format_code) ==
    IF \A v \in {image_count, width, height, astc_format_code} : v >= 0 /\ v <= U16_MAX
    THEN [err |-> "none",
          bytes |-> PackBE(width, 2) \o PackBE(image_count, 2)
                      \o PackBE(height, 2) \o PackBE(astc_format_code, 2)]
    ELSE [err |-> "StructError", bytes |-> <<>>]

\* A MetaBlock pack that keeps the low 16 bits of each value.
PackMeta_Wrapping(image_count, width, height, astc_format_code) ==
    [err |-> "none",
     bytes |-> PackBE(image_count, 2) \o PackBE(width, 2)
                 \o PackBE(height, 2) \o PackBE(astc_format_code, 2)]

\* struct.pack('>HHHH', ...): struct.error when a value is no unsigned 16-bit.
PackMeta(image_count, width, height, astc_format_code) ==
    IF \A v \in {image_count, width, height, astc_format_code} : v >= 0 /\ v <= U16_MAX
    THEN [err |-> "none",
          bytes |-> PackBE(image_count, 2) \o PackBE(width, 2)
                      \o PackBE(height, 2) \o PackBE(astc_format_code, 2)]
    ELSE [err |-> "StructError", bytes |-> <<>>]

\* A data start computed with 8-byte index entries.
DataStartOffset_Entry8(image_count) == 4 + 8 + (image_count * 8)

\* data_start_offset = 4 + 8 + (image_count * 12)
DataStartOffset(image_count) == 4 + 8 + (image_count * 12)

\* An index entry with a 4-byte offset.
PackIndexEntry_Offset4(offset, data_length) == PackBE(offset, 4) \o PackBE(data_length, 4)

\* struct.pack('>QI', current_offset, data_length)
PackIndexEntry(offset, data_length) == PackBE(offset, 8) \o PackBE(data_length, 4)

\* ffab_encoder.py: astc_compressed_data[:16] != astc_header raises ValueError.
MainPreambleMatches(blob, astc_header) ==
    SubSeq(blob, 1, Min(ASTC_HEADER_LEN, Len(blob))) = astc_header

\* ffab_encoder.py: compressed_data = astc_compressed_data[16:]
MainStoredData(blob) == SubSeq(blob, ASTC_HEADER_LEN + 1, Len(blob))

\* tools/ffab_encoder.py: compressed_data = compress_with_astc(...), stored whole.
ToolsStoredData(blob) == blob

\* An offset that is never advanced.
NextOffset_Stuck(offset, data_length) == offset

\* current_offset += data_length
NextOffset(offset, data_length) == offset + data_length

\* create_ffab_file_v1 up to the frame loop: the checks, the packed header and
\* MetaBlock, the first offset.
WriterStart(imgs, fmt, var) ==
    /\ wpc = "idle"
    /\ dpc = "idle"
    /\ ipc = "idle"
    /\ variant' = var
    /\ images' = imgs
    /\ astc_format' = fmt
    /\ LET dims == check_images_dimensions(imgs)
           code == IF var = "main" THEN get_astc_format_code(fmt)
                   ELSE tools_get_astc_format_code(fmt)
           m == PackMeta(Len(imgs), dims.width, dims.height, code.code)
           e == IF dims.err # "none" THEN dims.err
                ELSE IF code.err # "none" THEN code.err
                ELSE m.err
       IN /\ werr' = e
          /\ werr_frames' = dims.frames
          /\ wpc' = IF e = "none" THEN "compress" ELSE "failed"
          /\ header' = IF e = "none" THEN PackHeader ELSE <<>>
          /\ meta' = m.bytes
          /\ current_offset' = IF e = "none" THEN DataStartOffset(Len(imgs)) ELSE 0
    /\ UNCHANGED <<folder, pool, file, index_entries, image_data_blocks, codec_blobs, dvars, ivars, probe>>

\* A frame loop inside the with block: the codec fails with the output path
\* already opened for writing.
WriterCodecFails_AfterOpen ==
    /\ wpc = "compress"
    /\ wpc' = "failed"
    /\ werr' = "AstcEncodeFailed"
    /\ werr_frames' = <<>>
    /\ file' = FileOf(<<>>)
    /\ UNCHANGED <<folder, pool, variant, images, astc_format, header, meta,
                   index_entries, image_data_blocks, current_offset, codec_blobs,
                   dvars, ivars, probe>>

\* One turn of the frame loop with the codec failing: compress_with_astc raises.
WriterCodecFails ==
    /\ wpc = "compress"
    /\ wpc' = "failed"
    /\ werr' = "AstcEncodeFailed"
    /\ werr_frames' = <<>>
    /\ UNCHANGED <<folder, pool, file, variant, images, astc_format, header, meta,
                   index_entries, image_data_blocks, current_offset, codec_blobs,
                   dvars, ivars, probe>>

\* One turn of the frame loop with the codec returning blob; after the last
\* frame the loop ends and the writer goes on to open the output path.
WriterCompress(blob) ==
    /\ wpc = "compress"
    /\ LET dims == check_images_dimensions(images)
           astc_header == generate_astc_header(dims.width, dims.height, astc_format)
           compressed_data == IF variant = "main" THEN MainStoredData(blob)
                              ELSE ToolsStoredData(blob)
           data_length == Len(compressed_data)
       IN IF variant = "main" /\ ~MainPreambleMatches(blob, astc_header)
          THEN /\ wpc' = "failed"
               /\ werr' = "PreambleMismatch"
               /\ werr_frames' = <<images[Len(codec_blobs) + 1].name>>
               /\ codec_blobs' = Append(codec_blobs, blob)
               /\ UNCHANGED <<index_entries, image_data_blocks, current_offset>>
          ELSE /\ index_entries' =
                      Append(index_entries, PackIndexEntry(current_offset, data_length))
               /\ image_data_blocks' = Append(image_data_blocks, compressed_data)
               /\ current_offset' = NextOffset(current_offset, data_length)
               /\ codec_blobs' = Append(codec_blobs, blob)
               /\ wpc' = IF Len(codec_blobs) + 1 = Len(images) THEN "open" ELSE "compress"
               /\ werr' = "none"
               /\ werr_frames' = <<>>
    /\ UNCHANGED <<folder, pool, file, variant, images, astc_format, header, meta, dvars, ivars, probe>>

\* open(output_path, 'wb'): the file is created or emptied.
WriterOpen ==
    /\ wpc = "open"
    /\ file' = FileOf(<<>>)
    /\ wpc' = "header"
    /\ UNCHANGED <<folder, pool, werr, werr_frames, variant, images, astc_format, header, meta,
                   index_entries, image_data_blocks, current_offset, codec_blobs,
                   dvars, ivars, probe>>

\* f.write(header), f.write(meta), f.write(index_table), f.write(image_data);
\* the with block then closes the file.
WriterWrite ==
    /\ wpc \in {"header", "meta", "index", "data"}
    /\ file' = FileOf(file.bytes \o
                  (CASE wpc = "header" -> header
                     [] wpc = "meta" -> meta
                     [] wpc = "index" -> Join(index_entries)
                     [] wpc = "data" -> Join(image_data_blocks)))
    /\ wpc' = (CASE wpc = "header" -> "meta"
                 [] wpc = "meta" -> "index"
                 [] wpc = "index" -> "data"
                 [] wpc = "data" -> "done")
    /\ UNCHANGED <<folder, pool, werr, werr_frames, variant, images, astc_format, header, meta,
                   index_entries, image_data_blocks, current_offset, codec_blobs,
                   dvars, ivars, probe>>

\* The writer is stopped inside the with block (killed, or an exception such
\* as a full disk or a keyboard interrupt): the writes done so far stay in the
\* file, and k bytes of the data region when it stops part-way through
\* f.write(image_data); nothing removes the file.
WriterInterrupt(k) ==
    /\ wpc \in {"header", "meta", "index", "data"}
    /\ IF wpc = "data" THEN k < Len(Join(image_data_blocks)) ELSE k = 0
    /\ file' = FileOf(file.bytes \o SubSeq(Join(image_data_blocks), 1, k))
    /\ wpc' = "failed"
    /\ werr' = "Interrupted"
    /\ werr_frames' = <<>>
    /\ UNCHANGED <<folder, pool, variant, images, astc_format, header, meta,
                   index_entries, image_data_blocks, current_offset, codec_blobs,
                   dvars, ivars, probe>>

WriterNext ==
    \/ \E imgs \in ImageLists, fmt \in FormatInputs, var \in Variants :
           WriterStart(imgs, fmt, var)
    \/ WriterCodecFails
    \/ \E blob \in CodecBlobs(check_images_dimensions(images).width,
                              check_images_dimensions(images).height, astc_format) :
           WriterCompress(blob)
    \/ WriterOpen
    \/ WriterWrite

WriterInit ==
    /\ wpc = "idle"
    /\ werr = "none"
    /\ werr_frames = <<>>
    /\ variant = "main"
    /\ images = <<>>
    /\ astc_format = "4x4"
    /\ header = <<>>
    /\ meta = <<>>
    /\ index_entries = <<>>
    /\ image_data_blocks = <<>>
    /\ current_offset = 0
    /\ codec_blobs = <<>>

\* ---------------------------------------------------------- input folder
\* A file name is the sequence of its character codes.
\* Path.suffix: from the last dot on, when that dot is neither the first nor
\* the last character of the name; otherwise empty.
LastDot(name) ==
    IF \E i \in 1..Len(name) : name[i] = 46
    THEN CHOOSE i \in 1..Len(name) :
             name[i] = 46 /\ \A j \in (i + 1)..Len(name) : name[j] # 46
    ELSE 0
suffix(name) ==
    IF LastDot(name) > 1 /\ LastDot(name) < Len(name)
    THEN SubSeq(name, LastDot(name), Len(name))
    ELSE <<>>
\* str.lower on ASCII.
lower(s) == [i \in 1..Len(s) |-> IF s[i] \in 65..90 THEN s[i] + 32 ELSE s[i]]

\* SUPPORTED_FORMATS = ('.png', '.jpg', '.jpeg')
SUPPORTED_FORMATS ==
    {<<46, 112, 110, 103>>, <<46, 106, 112, 103>>, <<46, 106, 112, 101, 103>>}

\* Path.__lt__ on two entries of one folder: their names compared as strings,
\* code by code, a proper prefix first.
RECURSIVE NameLess(_, _)
NameLess(a, b) ==
    IF b = <<>> THEN FALSE
    ELSE IF a = <<>> THEN TRUE
    ELSE IF Head(a) # Head(b) THEN Head(a) < Head(b)
    ELSE NameLess(Tail(a), Tail(b))

\* A listing taken as iterdir yields it.
sorted_AsListed(files) == files
\* sorted(image_files): ascending by name.
RECURSIVE sorted(_)
sorted(files) ==
    IF files = <<>> THEN <<>>
    ELSE LET least == CHOOSE i \in 1..Len(files) :
                          \A j \in 1..Len(files) :
                              j = i \/ NameLess(files[i].name, files[j].name)
             others == [j \in 1..(Len(files) - 1) |->
                           IF j < least THEN files[j] ELSE files[j + 1]]
         IN <<files[least]>> \o sorted(others)

\* load_images_from_folder: the folder must exist, every entry must carry a
\* supported suffix, the entries are sorted by name, there must be one at
\* least, and each is opened as an image.
load_images_from_folder(f) ==
    IF ~f.exists THEN [err |-> "FolderNotFound", images |-> <<>>]
    ELSE IF \E i \in 1..Len(f.entries) :
                lower(suffix(f.entries[i].name)) \notin SUPPORTED_FORMATS
    THEN [err |-> "UnsupportedFormat", images |-> <<>>]
    ELSE LET image_files == sorted(f.entries)
         IN IF image_files = <<>> THEN [err |-> "EmptyFolder", images |-> <<>>]
            ELSE IF \E i \in 1..Len(image_files) : ~image_files[i].image
            THEN [err |-> "ImageLoadFailed", images |-> <<>>]
            ELSE [err |-> "none",
                  images |-> [i \in 1..Len(image_files) |->
                                 [name |-> image_files[i].name,
                                  width |-> image_files[i].width,
                                  height |-> image_files[i].height]]]

NoFolder == [exists |-> FALSE, entries |-> <<>>]

\* main: load_images_from_folder(args.input_folder), then
\* create_ffab_file_v1 up to its frame loop; any exception ends the run.
EncoderMain(fmt, var) ==
    LET loaded == load_images_from_folder(folder)
    IN IF loaded.err = "none"
       THEN WriterStart(loaded.images, fmt, var)
       ELSE /\ wpc = "idle"
            /\ dpc = "idle"
            /\ ipc = "idle"
            /\ variant' = var
            /\ astc_format' = fmt
            /\ wpc' = "failed"
            /\ werr' = loaded.err
            /\ UNCHANGED <<folder, pool, file, werr_frames, images, header, meta,
                           current_offset, index_entries, image_data_blocks,
                           codec_blobs, dvars, ivars, probe>>

\* --------------------------------------------------------------- decoder
\* A header decode that checks the version before the magic.
dec_read_ffab_header_VersionFirst(f) ==
    IF ~f.exists THEN [err |-> "FileNotFound", version |-> 0]
    ELSE LET hdr == FileRead(f.bytes, 0, 4)
             magic == UnpackBE(SubSeq(hdr, 1, 2))
             version == UnpackBE(SubSeq(hdr, 3, 4))
         IN IF Len(hdr) # 4 THEN [err |-> "StructError", version |-> 0]
            ELSE IF version # FFAB_VERSION_0x0001
                 THEN [err |-> "UnsupportedVersion", version |-> 0]
            ELSE IF magic # FFAB_MAGIC THEN [err |-> "InvalidMagic", version |-> 0]
                 ELSE [err |-> "none", version |-> version]

\* A header decode that checks the magic and takes any version.
dec_read_ffab_header_AnyVersion(f) ==
    IF ~f.exists THEN [err |-> "FileNotFound", version |-> 0]
    ELSE LET hdr == FileRead(f.bytes, 0, 4)
             magic == UnpackBE(SubSeq(hdr, 1, 2))
         IN IF Len(hdr) # 4 THEN [err |-> "StructError", version |-> 0]
            ELSE IF magic # FFAB_MAGIC THEN [err |-> "InvalidMagic", version |-> 0]
                 ELSE [err |-> "none", version |-> FFAB_VERSION_0x0001]

\* ffab_decoder.read_ffab_header: open, read 4 bytes, unpack '>HH' (struct.error
\* when fewer than 4 bytes came), check the magic, then the version.
dec_read_ffab_header(f) ==
    IF ~f.exists THEN [err |-> "FileNotFound", version |-> 0]
    ELSE LET hdr == FileRead(f.bytes, 0, 4)
             magic == UnpackBE(SubSeq(hdr, 1, 2))
             version == UnpackBE(SubSeq(hdr, 3, 4))
         IN IF Len(hdr) # 4 THEN [err |-> "StructError", version |-> 0]
            ELSE IF magic # FFAB_MAGIC THEN [err |-> "InvalidMagic", version |-> 0]
            ELSE IF version # FFAB_VERSION_0x0001
                 THEN [err |-> "UnsupportedVersion", version |-> 0]
                 ELSE [err |-> "none", version |-> version]

NoMeta == [image_count |-> 0, width |-> 0, height |-> 0, astc_format_code |-> 0]

\* A MetaBlock decode that takes the height before the width.
dec_read_ffab_meta_HeightFirst(f) ==
    IF ~f.exists THEN [err |-> "FileNotFound", meta |-> NoMeta]
    ELSE LET m == FileRead(f.bytes, 4, 8)
         IN IF Len(m) # 8 THEN [err |-> "StructError", meta |-> NoMeta]
            ELSE [err |-> "none",
                  meta |-> [image_count |-> UnpackBE(SubSeq(m, 1, 2)),
                            width |-> UnpackBE(SubSeq(m, 5, 6)),
                            height |-> UnpackBE(SubSeq(m, 3, 4)),
                            astc_format_code |-> UnpackBE(SubSeq(m, 7, 8))]]

\* ffab_decoder.read_ffab_meta: seek(4), read 8 bytes, unpack '>HHHH'.
dec_read_ffab_meta(f) ==
    IF ~f.exists THEN [err |-> "FileNotFound", meta |-> NoMeta]
    ELSE LET m == FileRead(f.bytes, 4, 8)
         IN IF Len(m) # 8 THEN [err |-> "StructError", meta |-> NoMeta]
            ELSE [err |-> "none",
                  meta |-> [image_count |-> UnpackBE(SubSeq(m, 1, 2)),
                            width |-> UnpackBE(SubSeq(m, 3, 4)),
                            height |-> UnpackBE(SubSeq(m, 5, 6)),
                            astc_format_code |-> UnpackBE(SubSeq(m, 7, 8))]]

\* An entry decode that takes a short read as it comes.
IndexEntryAt_Lenient(bytes, i) ==
    LET entry_data == FileRead(bytes, INDEX_START_OFFSET + INDEX_ENTRY_SIZE * (i - 1),
                               INDEX_ENTRY_SIZE)
    IN [err |-> "none",
        entry |-> <<UnpackBE(SubSeq(entry_data, 1, Min(8, Len(entry_data)))),
                    UnpackBE(SubSeq(entry_data, 9, Len(entry_data)))>>]

\* ffab_decoder.read_ffab_index_table, one turn of its loop: the entry at place
\* i (from 1), 12 bytes from 12 + 12 * (i - 1), unpacked '>QI'.
IndexEntryAt(bytes, i) ==
    LET entry_data == FileRead(bytes, INDEX_START_OFFSET + INDEX_ENTRY_SIZE * (i - 1),
                               INDEX_ENTRY_SIZE)
    IN IF Len(entry_data) # INDEX_ENTRY_SIZE THEN [err |-> "StructError", entry |-> <<0, 0>>]
       ELSE [err |-> "none",
             entry |-> <<UnpackBE(SubSeq(entry_data, 1, 8)),
                         UnpackBE(SubSeq(entry_data, 9, 12))>>]

\* ffab_decoder.read_ffab_index_table: image_count entries read in order; the
\* first short read raises struct.error.
dec_read_ffab_index_table(f, image_count) ==
    IF ~f.exists THEN [err |-> "FileNotFound", entries |-> <<>>]
    ELSE IF \E i \in 1..image_count : IndexEntryAt(f.bytes, i).err # "none"
         THEN [err |-> "StructError", entries |-> <<>>]
         ELSE [err |-> "none",
               entries |-> [i \in 1..image_count |-> IndexEntryAt(f.bytes, i).entry]]

\* A read that takes the frame to start where the data region starts.
read_compressed_image_data_FromDataStart(f, offset, data_length) ==
    FileRead(f.bytes, INDEX_START_OFFSET
                        + INDEX_ENTRY_SIZE * UnpackBE(FileRead(f.bytes, 4, 2)),
             data_length)

\* A read that forgets to seek.
read_compressed_image_data_NoSeek(f, offset, data_length) ==
    FileRead(f.bytes, 0, data_length)

\* ffab_decoder.read_compressed_image_data: seek(offset), read(data_length).
read_compressed_image_data(f, offset, data_length) ==
    FileRead(f.bytes, offset, data_length)

\* A format check by range, taking 0 for a code.
FormatCodeKnown_Range(astc_format_code) == astc_format_code <= 14

\* decode_ffab_file: astc_format_code not in ASTC_CODE_TO_FORMAT raises ValueError.
FormatCodeKnown(astc_format_code) == astc_format_code \in DOMAIN ASTC_CODE_TO_FORMAT

\* decode_ffab_file, first step: mkdir, read_ffab_header, the version assert.
DecoderHeader ==
    /\ dpc = "idle"
    /\ WriterQuiet /\ InfoQuiet
    /\ LET h == dec_read_ffab_header(file)
       IN /\ derr' = h.err
          /\ d_version' = h.version
          /\ dpc' = IF h.err = "none" THEN "meta" ELSE "failed"
    /\ file' = OpenForRead(file)
    /\ UNCHANGED <<folder, pool, wvars, ivars, probe, d_meta, d_index, d_compressed, d_astc_in, d_saved>>

\* decode_ffab_file: read_ffab_meta, then the format code looked up in
\* ASTC_CODE_TO_FORMAT (ValueError when it is not there).
DecoderMeta ==
    /\ dpc = "meta"
    /\ LET m == dec_read_ffab_meta(file)
           e == IF m.err # "none" THEN m.err
                ELSE IF ~FormatCodeKnown(m.meta.astc_format_code)
                     THEN "UnknownFormatCode" ELSE "none"
       IN /\ derr' = e
          /\ d_meta' = m.meta
          /\ dpc' = IF e = "none" THEN "index" ELSE "failed"
    /\ file' = OpenForRead(file)
    /\ UNCHANGED <<folder, pool, wvars, ivars, probe, d_version, d_index, d_compressed, d_astc_in, d_saved>>

\* decode_ffab_file: read_ffab_index_table; with no entry the frame loop ends at once.
DecoderIndex ==
    /\ dpc = "index"
    /\ LET t == dec_read_ffab_index_table(file, d_meta.image_count)
       IN /\ derr' = t.err
          /\ d_index' = t.entries
          /\ dpc' = IF t.err # "none" THEN "failed"
                    ELSE IF Len(t.entries) = 0 THEN "done" ELSE "frames"
    /\ file' = OpenForRead(file)
    /\ UNCHANGED <<folder, pool, wvars, ivars, probe, d_version, d_meta, d_compressed, d_astc_in, d_saved>>

\* A frame loop that removes the frames it has saved when the codec fails.
DecoderFrame_Rollback(codec_ok) ==
    /\ dpc = "frames"
    /\ LET i == Len(d_compressed) + 1
           compressed_data ==
               read_compressed_image_data(file, d_index[i][1], d_index[i][2])
           astc_header ==
               dec_generate_astc_header(d_meta.width, d_meta.height,
                                        ASTC_CODE_TO_FORMAT[d_meta.astc_format_code])
       IN /\ d_compressed' = Append(d_compressed, compressed_data)
          /\ d_astc_in' = Append(d_astc_in, astc_header \o compressed_data)
          /\ IF codec_ok
             THEN /\ d_saved' = Append(d_saved, i - 1)
                  /\ derr' = "none"
                  /\ dpc' = IF i = Len(d_index) THEN "done" ELSE "frames"
             ELSE /\ d_saved' = <<>>
                  /\ derr' = "AstcDecodeFailed"
                  /\ dpc' = "failed"
    /\ file' = OpenForRead(file)
    /\ UNCHANGED <<folder, pool, wvars, ivars, probe, d_version, d_meta, d_index>>

\* One turn of the frame loop: read_compressed_image_data, decode_astc_data
\* (the regenerated preamble, then the data, go to the codec, which succeeds or
\* fails), and on success the frame is saved as frame_{i:04d}.png.
DecoderFrame(codec_ok) ==
    /\ dpc = "frames"
    /\ LET i == Len(d_compressed) + 1
           compressed_data ==
               read_compressed_image_data(file, d_index[i][1], d_index[i][2])
           astc_header ==
               dec_generate_astc_header(d_meta.width, d_meta.height,
                                        ASTC_CODE_TO_FORMAT[d_meta.astc_format_code])
       IN /\ d_compressed' = Append(d_compressed, compressed_data)
          /\ d_astc_in' = Append(d_astc_in, astc_header \o compressed_data)
          /\ IF codec_ok
             THEN /\ d_saved' = Append(d_saved, i - 1)
                  /\ derr' = "none"
                  /\ dpc' = IF i = Len(d_index) THEN "done" ELSE "frames"
             ELSE /\ d_saved' = d_saved
                  /\ derr' = "AstcDecodeFailed"
                  /\ dpc' = "failed"
    /\ file' = OpenForRead(file)
    /\ UNCHANGED <<folder, pool, wvars, ivars, probe, d_version, d_meta, d_index>>

\* read_compressed_image_data called on its own for frame k (from 1) of the
\* decoded index, whichever frames the loop has read so far.
DirectRead(k) ==
    /\ probe.pc = "idle"
    /\ dpc \in {"frames", "done"}
    /\ k \in 1..Len(d_index)
    /\ probe' = [probe EXCEPT
                    !.pc = "read",
                    !.frame = k,
                    !.data = read_compressed_image_data(file, d_index[k][1], d_index[k][2])]
    /\ file' = OpenForRead(file)
    /\ UNCHANGED <<folder, pool, wvars, dvars, ivars>>

DecoderNext ==
    \/ DecoderHeader
    \/ DecoderMeta
    \/ DecoderIndex
    \/ \E codec_ok \in BOOLEAN : DecoderFrame(codec_ok)

DecoderInit ==
    /\ dpc = "idle"
    /\ derr = "none"
    /\ d_version = 0
    /\ d_meta = NoMeta
    /\ d_index = <<>>
    /\ d_compressed = <<>>
    /\ d_astc_in = <<>>
    /\ d_saved = <<>>

\* ------------------------------------------------------------- inspector
\* ffab_info.read_ffab_header: as the decoder's, returning magic and version.
info_read_ffab_header(f) ==
    LET hdr == FileRead(f.bytes, 0, 4)
        magic == UnpackBE(SubSeq(hdr, 1, 2))
        version == UnpackBE(SubSeq(hdr, 3, 4))
    IN IF Len(hdr) # 4 THEN [err |-> "StructError", magic |-> 0, version |-> 0]
       ELSE IF magic # FFAB_MAGIC THEN [err |-> "InvalidMagic", magic |-> 0, version |-> 0]
       ELSE IF version # FFAB_VERSION_0x0001
            THEN [err |-> "UnsupportedVersion", magic |-> 0, version |-> 0]
            ELSE [err |-> "none", magic |-> magic, version |-> version]

NoInfoMeta == [image_count |-> 0, width |-> 0, height |-> 0,
               astc_format_code |-> 0, astc_format |-> ""]

\* ffab_info.read_ffab_meta: the name comes from ASTC_CODE_TO_FORMAT.get(code,
\* "unknown(0x....)"): a code that is not in the table raises nothing.
info_read_ffab_meta(f) ==
    LET m == FileRead(f.bytes, 4, 8)
        code == UnpackBE(SubSeq(m, 7, 8))
    IN IF Len(m) # 8 THEN [err |-> "StructError", meta |-> NoInfoMeta]
       ELSE [err |-> "none",
             meta |-> [image_count |-> UnpackBE(SubSeq(m, 1, 2)),
                       width |-> UnpackBE(SubSeq(m, 3, 4)),
                       height |-> UnpackBE(SubSeq(m, 5, 6)),
                       astc_format_code |-> code,
                       astc_format |-> IF code \in DOMAIN info_ASTC_CODE_TO_FORMAT
                                       THEN info_ASTC_CODE_TO_FORMAT[code]
                                       ELSE "unknown"]]

\* ffab_info.read_ffab_index_table, one turn of its loop.
info_IndexEntryAt(bytes, i) ==
    LET entry_data == FileRead(bytes, INDEX_START_OFFSET + INDEX_ENTRY_SIZE * (i - 1),
                               INDEX_ENTRY_SIZE)
    IN IF Len(entry_data) # INDEX_ENTRY_SIZE THEN [err |-> "StructError", entry |-> <<0, 0>>]
       ELSE [err |-> "none",
             entry |-> <<UnpackBE(SubSeq(entry_data, 1, 8)),
                         UnpackBE(SubSeq(entry_data, 9, 12))>>]

\* ffab_info.read_ffab_index_table: the entries and the sum of their lengths.
info_read_ffab_index_table(f, image_count) ==
    IF \E i \in 1..image_count : info_IndexEntryAt(f.bytes, i).err # "none"
    THEN [err |-> "StructError", entries |-> <<>>, total_compressed_size |-> 0]
    ELSE LET es == [i \in 1..image_count |-> info_IndexEntryAt(f.bytes, i).entry]
         IN [err |-> "none", entries |-> es,
             total_compressed_size |-> SumSeq([i \in 1..image_count |-> es[i][2]])]

NoInfo == [file_size |-> 0, version |-> 0, meta |-> NoInfoMeta, entries |-> <<>>,
           total_compressed_size |-> 0, data_start_offset |-> 0]

\* get_file_info, first step: os.path.exists, os.path.getsize, read_ffab_header.
InfoHeader ==
    /\ ipc = "idle"
    /\ WriterQuiet /\ DecoderQuiet
    /\ IF ~file.exists
       THEN /\ ierr' = "FileNotFound"
            /\ ipc' = "failed"
            /\ info' = info
       ELSE LET h == info_read_ffab_header(file)
            IN /\ ierr' = h.err
               /\ ipc' = IF h.err = "none" THEN "meta" ELSE "failed"
               /\ info' = [info EXCEPT !.file_size = Len(file.bytes),
                                       !.version = h.version]
    /\ file' = IF file.exists THEN OpenForRead(file) ELSE file
    /\ UNCHANGED <<folder, pool, wvars, dvars, probe>>

\* get_file_info: read_ffab_meta.
InfoMeta ==
    /\ ipc = "meta"
    /\ LET m == info_read_ffab_meta(file)
       IN /\ ierr' = m.err
          /\ ipc' = IF m.err = "none" THEN "index" ELSE "failed"
          /\ info' = [info EXCEPT !.meta = m.meta]
    /\ file' = OpenForRead(file)
    /\ UNCHANGED <<folder, pool, wvars, dvars, probe>>

\* get_file_info: read_ffab_index_table, data_start_offset, and the result.
InfoIndex ==
    /\ ipc = "index"
    /\ LET t == info_read_ffab_index_table(file, info.meta.image_count)
       IN /\ ierr' = t.err
          /\ ipc' = IF t.err = "none" THEN "done" ELSE "failed"
          /\ info' = IF t.err # "none" THEN info
                     ELSE [info EXCEPT
                             !.entries = t.entries,
                             !.total_compressed_size = t.total_compressed_size,
                             !.data_start_offset = 4 + 8 + (info.meta.image_count * 12)]
    /\ file' = OpenForRead(file)
    /\ UNCHANGED <<folder, pool, wvars, dvars, probe>>

InfoNext ==
    \/ InfoHeader
    \/ InfoMeta
    \/ InfoIndex

InfoInit ==
    /\ ipc = "idle"
    /\ ierr = "none"
    /\ info = NoInfo

\* ------------------------------------------------- tables and preambles
\* Widths and heights around the byte boundaries of an unsigned 16-bit field.
ProbeDims == {0, 1, 255, 256, 300, 65535}

NoProbe == [pc |-> "idle", width |-> 0, height |-> 0, format |-> "4x4",
            payload |-> <<>>, code |-> 0, tools_code |-> 0, enc_header |-> <<>>,
            blob |-> <<>>, stored |-> <<>>, dec_format |-> "", info_format |-> "",
            dec_header |-> <<>>, astc_in |-> <<>>, frame |-> 0, data |-> <<>>]

\* The inputs: any width, height, format name of the table, and payload.
ProbeInputs ==
    {[NoProbe EXCEPT !.pc = "input", !.width = w, !.height = h,
                     !.format = f, !.payload = pl] :
        w \in ProbeDims, h \in ProbeDims, f \in DOMAIN ASTC_FORMAT_CODES,
        pl \in Payloads}

\* The writer's side: the code each encoder records for the name, the
\* preamble ffab_encoder.py derives, a codec blob that carries it and the
\* bytes ffab_encoder.py stores for that blob.
ProbeEncode ==
    /\ probe.pc = "input"
    /\ LET astc_header == generate_astc_header(probe.width, probe.height, probe.format)
           blob == astc_header \o probe.payload
       IN probe' = [probe EXCEPT
                       !.pc = "encoded",
                       !.code = get_astc_format_code(probe.format).code,
                       !.tools_code = tools_get_astc_format_code(probe.format).code,
                       !.enc_header = astc_header,
                       !.blob = blob,
                       !.stored = MainStoredData(blob)]
    /\ UNCHANGED <<folder, pool, file, wvars, dvars, ivars>>

\* The reader's side: the name the decoder and the inspector recover from
\* the code, the preamble decode_astc_data regenerates and the input.astc it
\* writes for the codec.
ProbeDecode ==
    /\ probe.pc = "encoded"
    /\ LET name == ASTC_CODE_TO_FORMAT[probe.code]
           astc_header == dec_generate_astc_header(probe.width, probe.height, name)
       IN probe' = [probe EXCEPT
                       !.pc = "decoded",
                       !.dec_format = name,
                       !.info_format = info_ASTC_CODE_TO_FORMAT[probe.code],
                       !.dec_header = astc_header,
                       !.astc_in = astc_header \o probe.stored]
    /\ UNCHANGED <<folder, pool, file, wvars, dvars, ivars>>

\* ------------------------------------------------------ process pools
\* test_ffab.py process_video: one encoder process per format, all running
\* at once on the same frames folder, each with its own output_<fmt>.ffab;
\* when every encoder has finished, one decoder process per container, each
\* with its own output folder.  Every compress_with_astc and decode_astc_data
\* call works in a temporary directory of its own.
PoolFormats == {"4x4", "6x6"}

\* Frame folders: frames of one size, named in sorted order.
PoolFrameSets ==
    {[i \in 1..n |-> [name |-> i, width |-> d[1], height |-> d[2]]] :
        n \in 1..MaxFrames, d \in DimSet}

\* astcenc -cl: a function of the input image, the block size and the
\* quality; the payload stands for the image's blocks.
AstcencCompress(img, block_size) ==
    generate_astc_header(img.width, img.height, block_size)
        \o Payload(1 + (img.name % MaxPayloadLen),
                   (16 * ASTC_FORMAT_CODES[block_size]) + img.name)

\* astcenc -dl: a function of input.astc, the image its bytes decode to.
AstcencDecompress(astc) == [astc |-> astc]

\* tempfile.TemporaryDirectory(prefix='ffab_'): a fresh directory per call,
\* so no two workers hold the same one.
TempDirOf_Prefix(worker) == "ffab_"
TempDirOf(worker) == worker

NoImage == [name |-> 0, width |-> 0, height |-> 0]
NoPng == [astc |-> <<>>]
EmptyDir == [input_png |-> NoImage, output_astc |-> <<>>,
             input_astc |-> <<>>, output_png |-> NoPng]
TempDirs == {TempDirOf(w) : w \in PoolFormats}

NoEncoder == [pc |-> "idle", images |-> <<>>, blocks |-> <<>>, err |-> "none"]
NoDecoder == [pc |-> "idle", meta |-> NoMeta, index |-> <<>>, err |-> "none"]
NoPool == [frames |-> <<>>,
           tmp |-> [d \in TempDirs |-> EmptyDir],
           ffab |-> [w \in PoolFormats |-> NoFile],
           folder |-> [w \in PoolFormats |-> <<>>],
           enc |-> [w \in PoolFormats |-> NoEncoder],
           dec |-> [w \in PoolFormats |-> NoDecoder]]

\* The index entries create_ffab_file_v1 packs for the stored blocks.
RECURSIVE PoolIndex(_, _)
PoolIndex(offset, blocks) ==
    IF blocks = <<>> THEN <<>>
    ELSE <<PackIndexEntry(offset, Len(Head(blocks)))>>
             \o PoolIndex(NextOffset(offset, Len(Head(blocks))), Tail(blocks))

\* The bytes create_ffab_file_v1 writes for a frame set and its stored blocks.
PoolContainer(imgs, block_size, blocks) ==
    PackHeader
        \o PackMeta(Len(imgs), imgs[1].width, imgs[1].height,
                    ASTC_FORMAT_CODES[block_size]).bytes
        \o Join(PoolIndex(DataStartOffset(Len(imgs)), blocks))
        \o Join(blocks)

\* ffab_encoder.py main: load_images_from_folder reads every frame.
EncLoad(w) ==
    /\ pool.enc[w].pc = "idle"
    /\ pool' = [pool EXCEPT !.enc[w].pc = "save", !.enc[w].images = pool.frames]
    /\ UNCHANGED <<folder, file, wvars, dvars, ivars, probe>>

\* compress_with_astc: the frame is saved as input.png.
EncSave(w) ==
    /\ pool.enc[w].pc = "save"
    /\ LET i == Len(pool.enc[w].blocks) + 1
       IN pool' = [pool EXCEPT !.enc[w].pc = "run",
                               !.tmp[TempDirOf(w)].input_png = pool.enc[w].images[i]]
    /\ UNCHANGED <<folder, file, wvars, dvars, ivars, probe>>

\* compress_with_astc: astcenc -cl input.png output.astc.
EncRun(w) ==
    /\ pool.enc[w].pc = "run"
    /\ pool' = [pool EXCEPT
                   !.enc[w].pc = "read",
                   !.tmp[TempDirOf(w)].output_astc =
                       AstcencCompress(pool.tmp[TempDirOf(w)].input_png, w)]
    /\ UNCHANGED <<folder, file, wvars, dvars, ivars, probe>>

\* compress_with_astc reads output.astc and leaves the with block, which
\* removes the directory; create_ffab_file_v1 checks the preamble and keeps
\* the rest of the blob.
EncRead(w) ==
    /\ pool.enc[w].pc = "read"
    /\ LET e == pool.enc[w]
           compressed_data == pool.tmp[TempDirOf(w)].output_astc
           astc_header == generate_astc_header(e.images[1].width, e.images[1].height, w)
           ok == MainPreambleMatches(compressed_data, astc_header)
           blocks == Append(e.blocks, MainStoredData(compressed_data))
       IN pool' = [pool EXCEPT
                      !.tmp[TempDirOf(w)] = EmptyDir,
                      !.enc[w].blocks = IF ok THEN blocks ELSE e.blocks,
                      !.enc[w].err = IF ok THEN "none" ELSE "PreambleMismatch",
                      !.enc[w].pc = IF ~ok THEN "failed"
                                    ELSE IF Len(blocks) = Len(e.images) THEN "write"
                                    ELSE "save"]
    /\ UNCHANGED <<folder, file, wvars, dvars, ivars, probe>>

\* create_ffab_file_v1: the container goes to the worker's output path.
EncWrite(w) ==
    /\ pool.enc[w].pc = "write"
    /\ pool' = [pool EXCEPT
                   !.enc[w].pc = "done",
                   !.ffab[w] = FileOf(PoolContainer(pool.enc[w].images, w,
                                                    pool.enc[w].blocks))]
    /\ UNCHANGED <<folder, file, wvars, dvars, ivars, probe>>

\* process_video starts the decoders when every encoder has succeeded.
\* decode_ffab_file: header, MetaBlock, format code and index table.
DecOpen(w) ==
    /\ pool.dec[w].pc = "idle"
    /\ \A v \in PoolFormats : pool.enc[v].pc = "done"
    /\ LET f == pool.ffab[w]
           h == dec_read_ffab_header(f)
           m == dec_read_ffab_meta(f)
           t == dec_read_ffab_index_table(f, m.meta.image_count)
           e == IF h.err # "none" THEN h.err
                ELSE IF m.err # "none" THEN m.err
                ELSE IF ~FormatCodeKnown(m.meta.astc_format_code)
                     THEN "UnknownFormatCode"
                ELSE t.err
       IN pool' = [pool EXCEPT
                      !.dec[w].err = e,
                      !.dec[w].meta = IF e = "none" THEN m.meta ELSE NoMeta,
                      !.dec[w].index = IF e = "none" THEN t.entries ELSE <<>>,
                      !.dec[w].pc = IF e # "none" THEN "failed"
                                    ELSE IF Len(t.entries) = 0 THEN "done"
                                    ELSE "astc"]
    /\ UNCHANGED <<folder, file, wvars, dvars, ivars, probe>>

\* decode_astc_data: the regenerated preamble and the frame's data are
\* written as input.astc.
DecWriteAstc(w) ==
    /\ pool.dec[w].pc = "astc"
    /\ LET d == pool.dec[w]
           i == Len(pool.folder[w]) + 1
           compressed_data ==
               read_compressed_image_data(pool.ffab[w], d.index[i][1], d.index[i][2])
           astc_header ==
               dec_generate_astc_header(d.meta.width, d.meta.height,
                                        ASTC_CODE_TO_FORMAT[d.meta.astc_format_code])
       IN pool' = [pool EXCEPT
                      !.dec[w].pc = "run",
                      !.tmp[TempDirOf(w)].input_astc = astc_header \o compressed_data]
    /\ UNCHANGED <<folder, file, wvars, dvars, ivars, probe>>

\* decode_astc_data: astcenc -dl input.astc output.png.
DecRun(w) ==
    /\ pool.dec[w].pc = "run"
    /\ pool' = [pool EXCEPT
                   !.dec[w].pc = "load",
                   !.tmp[TempDirOf(w)].output_png =
                       AstcencDecompress(pool.tmp[TempDirOf(w)].input_astc)]
    /\ UNCHANGED <<folder, file, wvars, dvars, ivars, probe>>

\* decode_astc_data loads output.png and leaves the with block;
\* decode_ffab_file saves the image as the folder's next frame.
DecSave(w) ==
    /\ pool.dec[w].pc = "load"
    /\ LET frames == Append(pool.folder[w], pool.tmp[TempDirOf(w)].output_png)
       IN pool' = [pool EXCEPT
                      !.tmp[TempDirOf(w)] = EmptyDir,
                      !.folder[w] = frames,
                      !.dec[w].pc = IF Len(frames) = Len(pool.dec[w].index)
                                    THEN "done" ELSE "astc"]
    /\ UNCHANGED <<folder, file, wvars, dvars, ivars, probe>>

\* ------------------------------------------------------------ mock files
\* A container laid out by hand, as test_create_mock_ffab_file does: header,
\* MetaBlock, one packed entry per (offset, length) pair, then the data bytes.
MockContainer(magic, version, image_count, width, height, code, entries, data) ==
    PackBE(magic, 2) \o PackBE(version, 2)
      \o PackBE(image_count, 2) \o PackBE(width, 2) \o PackBE(height, 2) \o PackBE(code, 2)
      \o Join([i \in 1..Len(entries) |-> PackIndexEntry(entries[i][1], entries[i][2])])
      \o data

\* Data bytes of a mock container.
Pattern(len) == [k \in 1..len |-> (200 + 29 * k) % 256]

\* The index a list of (gap, length) pairs spells: each entry starts gap bytes
\* after the end of the one before (the first, after the index table).
RECURSIVE EntriesFrom(_, _)
EntriesFrom(start, shapes) ==
    IF shapes = <<>> THEN <<>>
    ELSE LET off == start + Head(shapes)[1]
         IN <<<<off, Head(shapes)[2]>>>> \o EntriesFrom(off + Head(shapes)[2], Tail(shapes))

Prefixes(bytes, from) == {SubSeq(bytes, 1, k) : k \in from..Len(bytes)}

MockMagics == {FFAB_MAGIC, 65450}
MockVersions == {FFAB_VERSION_0x0001, 2}
MockCodes == {0, 1, 14, 15}
MockGaps == {-1, 0, 1}

\* Any header and MetaBlock over a contiguous index, cut at any length.
MockHeaderFiles ==
    UNION {Prefixes(MockContainer(magic, version, n, 300, 2, code,
                        EntriesFrom(DataStartOffset(n), [i \in 1..n |-> <<0, MaxPayloadLen>>]),
                        Pattern(n * MaxPayloadLen)), 0) :
             magic \in MockMagics, version \in MockVersions,
             code \in MockCodes, n \in 0..MaxFrames}

\* A valid header and MetaBlock over any index (gaps, overlaps, any lengths),
\* cut anywhere from the last index byte on.
MockIndexFiles ==
    UNION {Prefixes(MockContainer(FFAB_MAGIC, FFAB_VERSION_0x0001, Len(shapes), 300, 2, 5,
                        EntriesFrom(DataStartOffset(Len(shapes)), shapes),
                        Pattern(Len(shapes) * MaxPayloadLen)),
                    DataStartOffset(Len(shapes)) - 1) :
             shapes \in SeqsUpTo(MockGaps \X (0..MaxPayloadLen), MaxFrames) \ {<<>>}}

MockFiles == MockHeaderFiles \cup MockIndexFiles

\* A container left at the output path by an earlier run.
OldFile ==
    FileOf(MockContainer(FFAB_MAGIC, FFAB_VERSION_0x0001, 1, 300, 2, 5,
                         <<<<DataStartOffset(1), 1>>>>, Pattern(1)))

\* --------------------------------------------------------- specifications
\* Writing, then reading: the output path is empty or holds an old container.
Init ==
    /\ file \in {NoFile, OldFile}
    /\ WriterInit
    /\ DecoderInit
    /\ InfoInit
    /\ probe = NoProbe
    /\ pool = NoPool
    /\ folder = NoFolder

Next ==
    \/ WriterNext
    \/ DecoderNext
    \/ InfoNext

Spec == Init /\ [][Next]_vars

\* Reading any file: the path holds a mock container, valid or not, or nothing.
InitR ==
    /\ file \in {NoFile} \cup {FileOf(b) : b \in MockFiles}
    /\ WriterInit
    /\ DecoderInit
    /\ InfoInit
    /\ probe = NoProbe
    /\ pool = NoPool
    /\ folder = NoFolder

NextR ==
    \/ DecoderNext
    \/ InfoNext

SpecR == InitR /\ [][NextR]_vars

\* Writing with interruptions, then decoding what is left at the output path:
\* the codec gives a well-formed blob for every frame.
InitW ==
    /\ file = NoFile
    /\ WriterInit
    /\ DecoderInit
    /\ InfoInit
    /\ probe = NoProbe
    /\ pool = NoPool
    /\ folder = NoFolder

NextW ==
    \/ \E imgs \in ImageLists, var \in Variants : WriterStart(imgs, "4x4", var)
    \/ \E p \in Payloads :
           WriterCompress(generate_astc_header(check_images_dimensions(images).width,
                                               check_images_dimensions(images).height,
                                               astc_format) \o p)
    \/ WriterOpen
    \/ WriterWrite
    \/ \E k \in 0..(MaxFrames * (ASTC_HEADER_LEN + MaxPayloadLen)) : WriterInterrupt(k)
    \/ DecoderNext

SpecW == InitW /\ [][NextW]_vars

\* Both readers and a direct frame read on one file, in any order: the path
\* holds nothing, or a container of any header and MetaBlock cut anywhere.
InitM ==
    /\ file \in {NoFile} \cup {FileOf(b) : b \in MockHeaderFiles}
    /\ WriterInit
    /\ DecoderInit
    /\ InfoInit
    /\ probe = NoProbe
    /\ pool = NoPool
    /\ folder = NoFolder

NextM ==
    \/ DecoderNext
    \/ InfoNext
    \/ \E k \in 1..MaxFrames : DirectRead(k)

SpecM == InitM /\ [][NextM]_vars

\* Reading frames of any file with a valid header, in order and directly.
InitA ==
    /\ file \in {FileOf(b) : b \in MockIndexFiles}
    /\ WriterInit
    /\ DecoderInit
    /\ InfoInit
    /\ probe = NoProbe
    /\ pool = NoPool
    /\ folder = NoFolder

NextA ==
    \/ DecoderHeader
    \/ DecoderMeta
    \/ DecoderIndex
    \/ DecoderFrame(TRUE)
    \/ \E k \in 1..MaxFrames : DirectRead(k)

SpecA == InitA /\ [][NextA]_vars

\* The tables and the preamble functions on their own, over every format name.
InitP ==
    /\ file = NoFile
    /\ WriterInit
    /\ DecoderInit
    /\ InfoInit
    /\ probe \in ProbeInputs
    /\ pool = NoPool
    /\ folder = NoFolder

NextP ==
    \/ ProbeEncode
    \/ ProbeDecode

SpecP == InitP /\ [][NextP]_vars

\* The process pools of test_ffab.py on a folder of frames.
InitC ==
    /\ file = NoFile
    /\ WriterInit
    /\ DecoderInit
    /\ InfoInit
    /\ probe = NoProbe
    /\ pool \in {[NoPool EXCEPT !.frames = fs] : fs \in PoolFrameSets}
    /\ folder = NoFolder

NextC ==
    \E w \in PoolFormats :
        \/ EncLoad(w)
        \/ EncSave(w)
        \/ EncRun(w)
        \/ EncRead(w)
        \/ EncWrite(w)
        \/ DecOpen(w)
        \/ DecWriteAstc(w)
        \/ DecRun(w)
        \/ DecSave(w)

SpecC == InitC /\ [][NextC]_vars

\* Frame sets around the limit of the MetaBlock's 16-bit fields: one frame
\* too wide, one too tall, one frame too many, and the largest that fit.
OverflowDimSet == {<<U16_MAX + 1, 2>>, <<2, U16_MAX + 1>>, <<U16_MAX, 1>>, <<1, U16_MAX>>}
\* n frames of 1 x 1, as a list.
UnitFrames(n) == [i \in 1..n |-> [name |-> i, width |-> 1, height |-> 1]] \o <<>>
OverflowLists ==
    {UnitFrames(n) : n \in {1, MaxFrames, U16_MAX + 1}}
      \cup {<<[name |-> 1, width |-> d[1], height |-> d[2]]>> : d \in OverflowDimSet}

\* The writer on such frame sets, the output path empty or holding an old container.
InitO ==
    /\ file \in {NoFile, OldFile}
    /\ WriterInit
    /\ DecoderInit
    /\ InfoInit
    /\ probe = NoProbe
    /\ pool = NoPool
    /\ folder = NoFolder

NextO ==
    \/ /\ wpc = "idle"
       /\ \E imgs \in OverflowLists, var \in Variants : WriterStart(imgs, "4x4", var)
    \/ WriterCodecFails
    \/ \E p \in Payloads :
           WriterCompress(generate_astc_header(check_images_dimensions(images).width,
                                               check_images_dimensions(images).height,
                                               astc_format) \o p)
    \/ WriterOpen
    \/ WriterWrite

SpecO == InitO /\ [][NextO]_vars

\* Folder entries: 10.png, 2.png, B.PNG, a.jpeg; a.txt, .png and d, whose
\* suffix is not a supported one; x.jpg, which is no image (a folder of that
\* name, or a damaged file).
ImageNames ==
    {<<49, 48, 46, 112, 110, 103>>, <<50, 46, 112, 110, 103>>,
     <<66, 46, 80, 78, 71>>, <<97, 46, 106, 112, 101, 103>>}
OtherNames == {<<97, 46, 116, 120, 116>>, <<46, 112, 110, 103>>, <<100>>}
NoImageNames == {<<120, 46, 106, 112, 103>>}
FolderEntries ==
    {[name |-> n, width |-> 1, height |-> 1, image |-> n \in ImageNames] :
        n \in ImageNames \cup OtherNames \cup NoImageNames}

\* The orders iterdir may yield: every arrangement of up to MaxEntries
\* distinct entries.
MaxEntries == MaxFrames + 1
Listings ==
    {l \in SeqsUpTo(FolderEntries, MaxEntries) :
        \A i, j \in 1..Len(l) : i # j => l[i] # l[j]}

\* What the codec returns for a frame: the preamble, then one byte that
\* tells the frame (the first character of its name).
FrameBlob ==
    generate_astc_header(check_images_dimensions(images).width,
                         check_images_dimensions(images).height, astc_format)
        \o <<images[Len(codec_blobs) + 1].name[1]>>

\* The encoder's main on a folder, the output path empty or holding an old
\* container.
InitF ==
    /\ file \in {NoFile, OldFile}
    /\ WriterInit
    /\ DecoderInit
    /\ InfoInit
    /\ probe = NoProbe
    /\ pool = NoPool
    /\ folder \in {NoFolder} \cup {[exists |-> TRUE, entries |-> l] : l \in Listings}

NextF ==
    \/ \E var \in Variants : EncoderMain("6x6", var)
    \/ /\ wpc = "compress"
       /\ WriterCompress(FrameBlob)
    \/ WriterOpen
    \/ WriterWrite

SpecF == InitF /\ [][NextF]_vars

\* ------------------------------------------------- reading a file's fields
\* The fields of a container as its bytes spell them (1-based byte places).
FrameCountOf(bytes) == bytes[5] * 256 + bytes[6]
OffsetOf(bytes, i) ==
    LET at == 12 + 12 * (i - 1)
    IN ((bytes[at + 5] * 256 + bytes[at + 6]) * 256 + bytes[at + 7]) * 256 + bytes[at + 8]
LengthOf(bytes, i) ==
    LET at == 12 + 12 * (i - 1)
    IN ((bytes[at + 9] * 256 + bytes[at + 10]) * 256 + bytes[at + 11]) * 256 + bytes[at + 12]
\* A codec blob without its first 16 bytes.
Strip16(blob) == [j \in 1..(Len(blob) - 16) |-> blob[j + 16]]
\* The writer has produced a container and nothing has touched it since.
Written == wpc = "done"

\* ----------------------------------------------------------------- claims
\* C1: round trip. A container written by create_ffab_file_v1 (ffab_encoder.py)
\* and then read back by the decoder gives image_count = the number of frames
\* and, for every frame read, exactly the codec output without its 16-byte
\* preamble; no decode step before the codec fails on it.
C1_RoundTrip ==
    (Written /\ variant = "main" /\ dpc # "idle") =>
        /\ derr \in {"none", "AstcDecodeFailed"}
        /\ dpc \in {"index", "frames", "done", "failed"} =>
               d_meta.image_count = Len(images)
        /\ dpc \in {"frames", "done"} \/ derr = "AstcDecodeFailed" =>
               Len(d_index) = Len(images)
        /\ dpc = "done" => Len(d_compressed) = Len(images)
        /\ \A i \in 1..Len(d_compressed) : d_compressed[i] = Strip16(codec_blobs[i])

C1_Witness ==
    /\ Written /\ variant = "main" /\ dpc = "done"
    /\ Len(images) = 2
    /\ Len(d_compressed) = 2
    /\ Len(d_compressed[1]) = 2
    /\ d_compressed[1] # d_compressed[2]
    /\ Len(d_compressed[2]) > 0

\* C2: in every container a writer produces (either encoder), the first index
\* entry's offset is 4 + 8 + 12 * frame_count, frame_count read from the MetaBlock.
C2_FirstOffset ==
    Written => OffsetOf(file.bytes, 1) = 4 + 8 + 12 * FrameCountOf(file.bytes)

C2_Witness ==
    /\ Written /\ variant = "tools"
    /\ FrameCountOf(file.bytes) = 2
    /\ OffsetOf(file.bytes, 1) = 36

\* C3: in every container a writer produces, each index entry after the first
\* starts where the one before it ends.
C3_Contiguous ==
    Written =>
        \A i \in 1..(FrameCountOf(file.bytes) - 1) :
            OffsetOf(file.bytes, i + 1) = OffsetOf(file.bytes, i) + LengthOf(file.bytes, i)

C3_Witness ==
    /\ Written
    /\ FrameCountOf(file.bytes) = 2
    /\ LengthOf(file.bytes, 1) = 2
    /\ OffsetOf(file.bytes, 2) = 38

\* C4: a written container of n frames with stored lengths L_1..L_n is
\* 12 + 12 * n + sum(L_i) bytes long, its last entry ends at the end of the
\* file, and no entry reaches past the end of the file.
C4_FileSize ==
    Written =>
        LET n == FrameCountOf(file.bytes)
        IN /\ n = Len(images)
           /\ Len(file.bytes) =
                  12 + 12 * n + SumSeq([i \in 1..n |-> LengthOf(file.bytes, i)])
           /\ OffsetOf(file.bytes, n) + LengthOf(file.bytes, n) = Len(file.bytes)
           /\ \A i \in 1..n :
                  OffsetOf(file.bytes, i) + LengthOf(file.bytes, i) <= Len(file.bytes)

\* The scenario of the claim: lengths 100 and 150 give (36, 100), (136, 150), 286 bytes.
C4_Witness ==
    /\ Written
    /\ FrameCountOf(file.bytes) = 2
    /\ OffsetOf(file.bytes, 1) = 36 /\ LengthOf(file.bytes, 1) = 100
    /\ OffsetOf(file.bytes, 2) = 136 /\ LengthOf(file.bytes, 2) = 150
    /\ Len(file.bytes) = 286

\* The magic, version and format code a file's bytes spell.
MagicOf(bytes) == bytes[1] * 256 + bytes[2]
VersionOf(bytes) == bytes[3] * 256 + bytes[4]
FormatCodeOf(bytes) == bytes[11] * 256 + bytes[12]
HeaderValid(bytes) == MagicOf(bytes) = 65451 /\ VersionOf(bytes) = 1

\* What a header decode must have left behind on a file of 4 bytes or more.
HeaderOutcome(bytes, pc, err, version) ==
    IF MagicOf(bytes) # 65451
    THEN pc = "failed" /\ err = "InvalidMagic" /\ version = 0
    ELSE IF VersionOf(bytes) # 1
         THEN pc = "failed" /\ err = "UnsupportedVersion" /\ version = 0
         ELSE version = 1 /\ err \notin {"InvalidMagic", "UnsupportedVersion"}

\* C5: header decode, in the decoder and in the inspector, on a file of at
\* least 4 bytes: invalid magic when the first u16 is not 0xFFAB (whatever the
\* version), else unsupported version when the second u16 is not 1, else
\* success with version 1.
C5_HeaderDecode ==
    (file.exists /\ Len(file.bytes) >= 4) =>
        /\ dpc # "idle" => HeaderOutcome(file.bytes, dpc, derr, d_version)
        /\ ipc # "idle" => HeaderOutcome(file.bytes, ipc, ierr, info.version)

C5_Witness ==
    /\ file.exists /\ Len(file.bytes) >= 4
    /\ MagicOf(file.bytes) # 65451 /\ VersionOf(file.bytes) # 1
    /\ dpc = "failed" /\ derr = "InvalidMagic"
    /\ ipc = "failed" /\ ierr = "InvalidMagic"

\* A file with a valid header whose MetaBlock holds a code outside 1..14.
UnknownCodeFile ==
    /\ file.exists /\ Len(file.bytes) >= 12
    /\ HeaderValid(file.bytes)
    /\ FormatCodeOf(file.bytes) \notin 1..14

IndexValid(entries, size) ==
    /\ entries[1][1] = 12 + 12 * Len(entries)
    /\ \A i \in 1..(Len(entries) - 1) : entries[i + 1][1] = entries[i][1] + entries[i][2]
    /\ \A i \in 1..Len(entries) : entries[i][1] + entries[i][2] <= size

\* C7: the reader retrieves no frame's bytes for decompression from a
\* container whose index breaks contiguity or bounds.
C7_ValidatedBeforeRead ==
    Len(d_compressed) > 0 => IndexValid(d_index, Len(file.bytes))

\* C8: when the last index entry declares a range past the end of the file,
\* that frame is never read as if it were whole, and no read returns fewer
\* bytes than the entry's declared length.
C8_NoShortRead ==
    /\ \A i \in 1..Len(d_compressed) : Len(d_compressed[i]) = d_index[i][2]
    /\ LET n == Len(d_index)
       IN (n > 0 /\ d_index[n][1] + d_index[n][2] > Len(file.bytes)) =>
              Len(d_compressed) < n

\* C9: a file shorter than a decode step needs (4 for the header, 12 for the
\* MetaBlock, 12 + 12 * frame_count for the index table) makes that step fail
\* with struct.error; the decoder then emits no frame and the inspector
\* returns no file information.
C9_ShortFile ==
    file.exists =>
        LET n == Len(file.bytes)
        IN /\ n < 4 =>
                  /\ dpc # "idle" => dpc = "failed" /\ derr = "StructError"
                  /\ ipc # "idle" => ipc = "failed" /\ ierr = "StructError"
           /\ (n >= 4 /\ n < 12) =>
                  /\ dpc \in {"idle", "meta", "failed"}
                  /\ (dpc = "failed" /\ d_version = 1) => derr = "StructError"
                  /\ ipc \in {"idle", "meta", "failed"}
                  /\ (ipc = "failed" /\ info.version = 1) => ierr = "StructError"
           /\ (n >= 12 /\ n < 12 + 12 * FrameCountOf(file.bytes)) =>
                  /\ dpc \in {"idle", "meta", "index", "failed"}
                  /\ (dpc = "failed" /\ d_version = 1) =>
                         derr \in {"StructError", "UnknownFormatCode"}
                  /\ ipc \in {"idle", "meta", "index", "failed"}
                  /\ (ipc = "failed" /\ info.version = 1) => ierr = "StructError"
           /\ (n < 12 \/ n < 12 + 12 * FrameCountOf(file.bytes)) =>
                  /\ d_compressed = <<>> /\ d_saved = <<>> /\ dpc # "done"
                  /\ ipc # "done"

C9_Witness ==
    /\ file.exists /\ Len(file.bytes) >= 12 + 12
    /\ Len(file.bytes) < 12 + 12 * FrameCountOf(file.bytes)
    /\ HeaderValid(file.bytes) /\ FormatCodeOf(file.bytes) \in 1..14
    /\ dpc = "failed" /\ derr = "StructError" /\ d_meta.image_count = 2
    /\ ipc = "failed" /\ ierr = "StructError" /\ info.meta.image_count = 2

\* C10: in either encoder the bytes stored for frame i, and the length in
\* index entry i, are those of the codec output (one that holds a whole
\* preamble, 16 bytes or more) without its first 16 bytes,
\* so that the regenerated preamble followed by the stored bytes is the
\* codec's blob.
C10_PreambleStripped ==
    Written =>
        /\ \A i \in {k \in 1..Len(codec_blobs) : Len(codec_blobs[k]) >= 16} :
               /\ LengthOf(file.bytes, i) = Len(codec_blobs[i]) - 16
               /\ FileRead(file.bytes, OffsetOf(file.bytes, i), LengthOf(file.bytes, i))
                      = Strip16(codec_blobs[i])
        /\ \A i \in 1..Len(d_astc_in) : d_astc_in[i] = codec_blobs[i]

\* The preamble the container's width, height and format spell.
ContainerPreamble ==
    generate_astc_header(check_images_dimensions(images).width,
                         check_images_dimensions(images).height, astc_format)
\* The codec blobs whose first 16 bytes are not that preamble.
MismatchedFrames ==
    {i \in 1..Len(codec_blobs) :
        SubSeq(codec_blobs[i], 1, Min(16, Len(codec_blobs[i]))) # ContainerPreamble}

\* The frame set is of a size a MetaBlock can hold: positive, 16 bits at most.
SizedFrames ==
    /\ images # <<>>
    /\ images[1].width \in 1..65535 /\ images[1].height \in 1..65535

\* C11: no writer, main or tools, produces a container (here: of frames of a
\* positive size) holding a frame whose codec blob does not start with the
\* preamble derived from the container's width, height and format; a writer
\* that met such a blob has failed naming that frame and has left the output
\* path alone.
C11_PreambleChecked ==
    /\ (Written /\ SizedFrames) => MismatchedFrames = {}
    /\ werr = "PreambleMismatch" =>
           /\ wpc = "failed"
           /\ MismatchedFrames = {Len(codec_blobs)}
           /\ werr_frames = <<images[Len(codec_blobs)].name>>
           /\ Len(image_data_blocks) = Len(codec_blobs) - 1
           /\ file \in {NoFile, OldFile}

\* The 16 bytes of a .astc preamble for a width and a height below 65536:
\* magic 13 AB A1 5C, the block size, 1, each dimension as 3 little-endian
\* bytes, depth 1 0 0.
IsPreambleFor(h, width, height) ==
    /\ Len(h) = 16
    /\ <<h[1], h[2], h[3], h[4]>> = <<19, 171, 161, 92>>
    /\ h[7] = 1
    /\ h[8] + 256 * h[9] = width /\ h[10] = 0
    /\ h[11] + 256 * h[12] = height /\ h[13] = 0
    /\ <<h[14], h[15], h[16]>> = <<1, 0, 0>>

\* C12: for every width, height and format name, the decoder's
\* generate_astc_header gives the 16 bytes the encoder's gives, laid out as
\* the .astc preamble; so the regenerated preamble followed by the payload
\* ffab_encoder.py stored is the codec's blob.
C12_PreambleRegenerated ==
    /\ probe.pc \in {"encoded", "decoded"} =>
           /\ IsPreambleFor(probe.enc_header, probe.width, probe.height)
           /\ probe.format = "12x10" => <<probe.enc_header[5], probe.enc_header[6]>> = <<12, 10>>
           /\ probe.format = "5x4" => <<probe.enc_header[5], probe.enc_header[6]>> = <<5, 4>>
           /\ probe.stored = probe.payload
    /\ probe.pc = "decoded" =>
           /\ probe.dec_header = probe.enc_header
           /\ probe.astc_in = probe.blob

C12_Witness ==
    /\ probe.pc = "decoded"
    /\ probe.width = 65535 /\ probe.height = 300 /\ probe.format = "12x10"
    /\ probe.dec_header = <<19, 171, 161, 92, 12, 10, 1, 255, 255, 0, 44, 1, 0, 1, 0, 0>>
    /\ Len(probe.payload) = 2
    /\ probe.astc_in = probe.dec_header \o probe.payload

\* A table maps the 14 block-tile names one-to-one onto the codes 1..14.
IsFormatTable(table) ==
    /\ DOMAIN table = {FormatOrder[i] : i \in 1..Len(FormatOrder)}
    /\ Cardinality(DOMAIN table) = 14
    /\ {table[n] : n \in DOMAIN table} = 1..14
    /\ \A n1, n2 \in DOMAIN table : table[n1] = table[n2] => n1 = n2

\* C13: the name-to-code table of each tool (encoder, tools encoder, decoder,
\* inspector) is a bijection between the 14 names and the codes 1..14, the
\* four tables are the same, the code-to-name tables invert them, and the
\* name a reader recovers from the code a writer recorded is the writer's.
C13_FormatCodeClosure ==
    /\ IsFormatTable(ASTC_FORMAT_CODES)
    /\ IsFormatTable(tools_ASTC_FORMAT_CODES)
    /\ IsFormatTable(dec_ASTC_FORMAT_CODES)
    /\ IsFormatTable(info_ASTC_FORMAT_CODES)
    /\ tools_ASTC_FORMAT_CODES = ASTC_FORMAT_CODES
    /\ dec_ASTC_FORMAT_CODES = ASTC_FORMAT_CODES
    /\ info_ASTC_FORMAT_CODES = ASTC_FORMAT_CODES
    /\ DOMAIN ASTC_CODE_TO_FORMAT = 1..14
    /\ DOMAIN info_ASTC_CODE_TO_FORMAT = 1..14
    /\ probe.pc \in {"encoded", "decoded"} =>
           /\ probe.code \in 1..14
           /\ probe.tools_code = probe.code
           /\ probe.format = "4x4" <=> probe.code = 1
           /\ probe.format = "6x6" <=> probe.code = 5
           /\ ASTC_CODE_TO_FORMAT[dec_ASTC_FORMAT_CODES[probe.format]] = probe.format
           /\ info_ASTC_CODE_TO_FORMAT[info_ASTC_FORMAT_CODES[probe.format]] = probe.format
    /\ probe.pc = "decoded" =>
           /\ probe.dec_format = probe.format
           /\ probe.info_format = probe.format

C13_Witness ==
    /\ probe.pc = "decoded"
    /\ probe.format = "6x6" /\ probe.code = 5 /\ probe.tools_code = 5
    /\ probe.dec_format = "6x6" /\ probe.info_format = "6x6"

\* C14: create_ffab_file_v1 (either encoder) called with no frame fails with
\* the no-images error; the codec has not run and the output path holds what
\* it held before the call (nothing, or the old container).
C14_EmptyListRejected ==
    (wpc # "idle" /\ images = <<>>) =>
        /\ wpc = "failed" /\ werr = "NoImages"
        /\ codec_blobs = <<>> /\ index_entries = <<>> /\ image_data_blocks = <<>>
        /\ file \in {NoFile, OldFile}

C14_Witness ==
    /\ wpc = "failed" /\ werr = "NoImages" /\ images = <<>>
    /\ variant = "tools"
    /\ file = OldFile

\* The frames all have one size, and its width or its height is zero.
ZeroSized(imgs) ==
    /\ imgs # <<>>
    /\ \A i \in 1..Len(imgs) :
           imgs[i].width = imgs[1].width /\ imgs[i].height = imgs[1].height
    /\ imgs[1].width = 0 \/ imgs[1].height = 0

\* C15: a writer given frames whose shared width or height is zero fails
\* with an invalid-dimensions error, so it compresses no such frame and every
\* container it produces has width > 0 and height > 0 in its MetaBlock.
C15_ZeroDimensionsRejected ==
    /\ (wpc # "idle" /\ ZeroSized(images)) =>
           wpc = "failed" /\ werr = "InvalidDimensions"
    /\ Written =>
           /\ file.bytes[7] * 256 + file.bytes[8] > 0
           /\ file.bytes[9] * 256 + file.bytes[10] > 0

\* The frames whose size is not the first frame's.
DifferingFrames(imgs) ==
    {i \in 2..Len(imgs) :
        imgs[i].width # imgs[1].width \/ imgs[i].height # imgs[1].height}

\* C16: a frame set in which some frame's size differs from the first
\* frame's is rejected with an error naming the first frame and the first
\* differing one, before any frame is compressed and with the output path as
\* it was; in a written container the MetaBlock's width and height are those
\* of every input frame.
C16_DimensionConsistency ==
    /\ (wpc # "idle" /\ DifferingFrames(images) # {}) =>
           /\ wpc = "failed" /\ werr = "DimensionMismatch"
           /\ \E i \in DifferingFrames(images) :
                  /\ \A j \in DifferingFrames(images) : i <= j
                  /\ werr_frames = <<images[1].name, images[i].name>>
           /\ codec_blobs = <<>> /\ image_data_blocks = <<>>
           /\ file \in {NoFile, OldFile}
    /\ Written =>
           \A i \in 1..Len(images) :
               /\ images[i].width = file.bytes[7] * 256 + file.bytes[8]
               /\ images[i].height = file.bytes[9] * 256 + file.bytes[10]

C16_Witness ==
    /\ wpc = "failed" /\ werr = "DimensionMismatch"
    /\ Len(images) = 2 /\ images[1].width = 300 /\ images[2].width = 1
    /\ werr_frames = <<1, 2>>
    /\ file = OldFile

\* The writer was stopped before the container was whole.
Interrupted == wpc = "failed" /\ werr = "Interrupted"

\* C17: from a file the interrupted writer left (a strict prefix of the
\* container: nothing, the header, header and MetaBlock, up to the index
\* table, or part of the data region) the decoder emits no frame; stated here
\* for the frames whose payload is not empty and was read whole.
C17_PartialNeverDecoded ==
    Interrupted =>
        \A j \in 1..Len(d_saved) :
            LET i == d_saved[j] + 1
            IN Len(d_compressed[i]) = 0 \/ Len(d_compressed[i]) < d_index[i][2]

\* C18: when the codec fails on a frame (here: of a positive size),
\* create_ffab_file_v1 fails, no later frame is compressed, nothing is
\* written, and the error names that frame.
C18_CodecFailureTagged ==
    (werr = "AstcEncodeFailed" /\ SizedFrames) =>
        /\ wpc = "failed"
        /\ Len(codec_blobs) < Len(images)
        /\ file \in {NoFile, OldFile}
        /\ werr_frames = <<images[Len(codec_blobs) + 1].name>>

\* The first step of opening a file that must fail, and its error, read from
\* the file's bytes: header, then MetaBlock (with the format-code check when
\* the reader has one), then index table.
FirstFailure(f, checks_code) ==
    IF ~f.exists THEN [step |-> "header", err |-> "FileNotFound"]
    ELSE IF Len(f.bytes) < 4 THEN [step |-> "header", err |-> "StructError"]
    ELSE IF MagicOf(f.bytes) # 65451 THEN [step |-> "header", err |-> "InvalidMagic"]
    ELSE IF VersionOf(f.bytes) # 1 THEN [step |-> "header", err |-> "UnsupportedVersion"]
    ELSE IF Len(f.bytes) < 12 THEN [step |-> "meta", err |-> "StructError"]
    ELSE IF checks_code /\ FormatCodeOf(f.bytes) \notin 1..14
         THEN [step |-> "meta", err |-> "UnknownFormatCode"]
    ELSE IF Len(f.bytes) < 12 + 12 * FrameCountOf(f.bytes)
         THEN [step |-> "index", err |-> "StructError"]
         ELSE [step |-> "none", err |-> "none"]

\* A reader at pc with error err has done the steps before the first failing
\* one, reported that step's error and done nothing after it.
StopsAtFirstFailure(f, checks_code, pc, err, header_done, meta_done, index_done) ==
    LET ff == FirstFailure(f, checks_code)
    IN /\ (pc = "failed" /\ err # "AstcDecodeFailed") => err = ff.err /\ ff.step # "none"
       /\ pc \in {"index", "frames", "done"} \/ err = "AstcDecodeFailed" =>
              ff.step \in {"index", "none"}
       /\ pc \in {"frames", "done"} \/ err = "AstcDecodeFailed" => ff.step = "none"
       /\ pc = "meta" => ff.step # "header"
       /\ header_done <=> (pc # "idle" /\ ff.step # "header")
       /\ meta_done => pc \notin {"idle", "meta"} /\ ff.step # "header"
       /\ index_done => pc \in {"frames", "done", "failed"} /\ ff.step = "none"

EntryPlaces(k) == (12 + 12 * (k - 1) + 1)..(12 + 12 * k)
RangePlaces(entry) == (entry[1] + 1)..(entry[1] + entry[2])

\* Files that agree with bytes on entry k and on the range it declares, and
\* differ elsewhere: one other byte changed, the tail cut or grown by a byte
\* outside the range.
AgreeingFiles(bytes, k, entry) ==
    LET kept == EntryPlaces(k) \cup RangePlaces(entry)
    IN {[bytes EXCEPT ![j] = (@ + 1) % 256] : j \in (1..Len(bytes)) \ kept}
         \cup (IF Len(bytes) \in kept \/ Len(bytes) = 0 THEN {}
               ELSE {SubSeq(bytes, 1, Len(bytes) - 1)})
         \cup (IF Len(bytes) + 1 \in kept THEN {} ELSE {Append(bytes, 7)})

\* C20: the bytes read for frame k are the file's bytes in the range entry k
\* declares (those of them the file has); a file that agrees on entry k and
\* on that range gives the same bytes whatever else it holds; and a direct
\* read of frame k gives what the frame loop reads for it, whichever frames
\* were read before.
C20_RandomAccess ==
    probe.pc = "read" =>
        LET k == probe.frame
            entry == d_index[k]
        IN /\ probe.data = [j \in 1..Len(probe.data) |-> file.bytes[entry[1] + j]]
           /\ Len(probe.data) <= entry[2]
           /\ entry[1] + entry[2] <= Len(file.bytes) => Len(probe.data) = entry[2]
           /\ \A g \in AgreeingFiles(file.bytes, k, entry) :
                  read_compressed_image_data(FileOf(g), entry[1], entry[2]) = probe.data
           /\ Len(d_compressed) >= k => d_compressed[k] = probe.data

\* Frame 2 read directly when the frame loop has read no frame yet.
C20_Witness ==
    /\ probe.pc = "read" /\ probe.frame = 2 /\ Len(probe.data) = 2
    /\ dpc = "frames" /\ d_compressed = <<>>
    /\ d_index[2][1] = d_index[1][1] + d_index[1][2] /\ d_index[1][2] = 2

\* C21: no step of the decoder or the inspector, successful or failing,
\* changes the container file; so the header, MetaBlock and index the two
\* tools read are the same, and a frame read again gives the bytes it gave
\* before.
C21_ReadersNeverMutate ==
    /\ [][file' = file]_vars
    /\ []((dpc \in {"frames", "done"} /\ ipc = "done") =>
              /\ d_index = info.entries
              /\ d_version = info.version
              /\ d_meta.image_count = info.meta.image_count)
    /\ []((probe.pc = "read" /\ Len(d_compressed) >= probe.frame) =>
              d_compressed[probe.frame] = probe.data)

\* Both tools have read a container, and frame 1 was read twice.
C21_Witness ==
    /\ file.exists /\ dpc = "done" /\ ipc = "done"
    /\ Len(d_index) = 2 /\ info.entries = d_index
    /\ probe.pc = "read" /\ probe.frame = 1
    /\ Len(probe.data) = 2 /\ d_compressed[1] = probe.data


\* What a worker produces when it runs alone on the frames: the stored blocks,
\* the container and the decoded folder.
SoloBlocks(frames, w) ==
    [i \in 1..Len(frames) |-> MainStoredData(AstcencCompress(frames[i], w))]
SoloContainer(frames, w) == PoolContainer(frames, w, SoloBlocks(frames, w))
SoloFolder(frames, w) ==
    [i \in 1..Len(frames) |->
        AstcencDecompress(
            dec_generate_astc_header(frames[1].width, frames[1].height, w)
                \o SoloBlocks(frames, w)[i])]

\* C22: encoder workers running at once, one per format, each with its own
\* output path and temporary directory, never fail and write the container
\* they would write running alone, whatever the interleaving, and leave the
\* source frames as they were; decoder workers running at once on distinct
\* folders likewise save the frames they would save running alone.
C22_WorkersIndependent ==
    /\ [][pool'.frames = pool.frames]_vars
    /\ [](\A w \in PoolFormats :
             /\ pool.enc[w].pc # "failed"
             /\ pool.enc[w].pc = "done" =>
                    pool.ffab[w] = FileOf(SoloContainer(pool.frames, w)))
    /\ [](\A w \in PoolFormats :
             /\ pool.dec[w].pc # "failed"
             /\ pool.dec[w].pc = "done" =>
                    pool.folder[w] = SoloFolder(pool.frames, w))

\* Two frames, both encoders and both decoders finished, two different
\* containers and two different folders.
C22_Witness ==
    /\ Len(pool.frames) = 2
    /\ \A w \in PoolFormats : pool.enc[w].pc = "done" /\ pool.dec[w].pc = "done"
    /\ pool.ffab["4x4"] # pool.ffab["6x6"]
    /\ pool.folder["4x4"] # pool.folder["6x6"]
    /\ Len(pool.folder["6x6"]) = 2


\* C23: decoding a container that an encoder wrote from n frames of one size
\* saves frames numbered 0, 1, ... in increasing order, frame i read through
\* index entry i and holding the data stored for input frame i, each handed
\* to the codec under a preamble for the input's width and height; when the
\* decoder finishes it has saved exactly n frames.
C23_FrameCountAndOrder ==
    (Written /\ dpc # "idle") =>
        /\ d_saved = [i \in 1..Len(d_saved) |-> i - 1]
        /\ Len(d_saved) <= Len(images)
        /\ \A i \in 1..Len(d_compressed) :
               /\ d_index[i] = <<OffsetOf(file.bytes, i), LengthOf(file.bytes, i)>>
               /\ d_compressed[i] = image_data_blocks[i]
               /\ SubSeq(d_astc_in[i], 1, ASTC_HEADER_LEN) =
                      generate_astc_header(images[1].width, images[1].height,
                                           astc_format)
        /\ dpc = "done" =>
               /\ derr = "none"
               /\ Len(d_saved) = Len(images)
               /\ d_meta.image_count = Len(images)
               /\ d_meta.width = images[1].width
               /\ d_meta.height = images[1].height

\* Two 300 x 2 frames encoded and decoded: frame_0000 and frame_0001 saved.
C23_Witness ==
    /\ Written /\ dpc = "done"
    /\ Len(images) = 2
    /\ images[1].width = 300 /\ images[1].height = 2
    /\ d_saved = <<0, 1>>
    /\ d_meta.width = 300 /\ d_meta.height = 2
    /\ d_compressed[1] # d_compressed[2]


\* Where frame 0's bytes begin in a written file: the data blocks are the
\* last thing the writer writes.
DataRegionStart == Len(file.bytes) - Len(Join(image_data_blocks))

\* C24 as stated: frame 0's bytes begin at 12 + 8 + 12 * frame_count.
C24_DataStartAsStated ==
    Written => DataRegionStart = 12 + 8 + 12 * FrameCountOf(file.bytes)

\* C24: in a container with frame_count frames, frame 0's bytes begin at
\* file offset D = 4 + 8 + 12 * frame_count, right after the header, the
\* MetaBlock and the index table; the inspector reports the same D.
C24_DataStart ==
    Written =>
        LET D == 4 + 8 + 12 * FrameCountOf(file.bytes)
        IN /\ DataRegionStart = D
           /\ D = Len(header) + Len(meta) + Len(Join(index_entries))
           /\ SubSeq(file.bytes, D + 1, D + Len(image_data_blocks[1]))
                  = image_data_blocks[1]
           /\ ipc = "done" => info.data_start_offset = D

\* Two frames, the first with two stored bytes at offset 36 (not 44), and
\* the inspector done.
C24_Witness ==
    /\ Written /\ variant = "main" /\ ipc = "done"
    /\ FrameCountOf(file.bytes) = 2
    /\ Len(image_data_blocks[1]) = 2
    /\ DataRegionStart = 36
    /\ info.data_start_offset = 36
    /\ file.bytes[37] = image_data_blocks[1][1]


\* C25: in every container a writer produces (here: of frames of a positive
\* size), each index entry's offset is greater than the one before it,
\* whatever codec outputs the writer accepted, a blob of the 16-byte preamble
\* alone included.
C25_StrictlyIncreasing ==
    (Written /\ SizedFrames) =>
        \A i \in 1..(FrameCountOf(file.bytes) - 1) :
            OffsetOf(file.bytes, i + 1) > OffsetOf(file.bytes, i)


\* The failures create_ffab_file_v1 raises before its write phase.
PreWriteErrors ==
    {"NoImages", "DimensionMismatch", "InvalidFormat", "StructError",
     "AstcEncodeFailed", "PreambleMismatch"}

\* C26: either encoder opens the output path only when every frame has been
\* compressed (and, in ffab_encoder.py, checked against the preamble); no
\* step before that touches the file, so after an empty frame list,
\* inconsistent dimensions, an unknown format name, a codec failure or a
\* preamble mismatch on any frame the path holds what it held before: nothing,
\* or the old container byte for byte.
C26_OpenAfterAllFrames ==
    /\ [][(wpc \in {"idle", "compress"}) => (file' = file)]_vars
    /\ [](wpc \in {"idle", "compress", "open"} => file \in {NoFile, OldFile})
    /\ [](wpc = "failed" => werr \in PreWriteErrors /\ file \in {NoFile, OldFile})
    /\ [](wpc = "open" =>
             /\ Len(codec_blobs) = Len(images)
             /\ Len(image_data_blocks) = Len(images)
             /\ variant = "main" => MismatchedFrames = {})

\* The codec fails on the second frame and the old container is still there;
\* the decoder then reads it.
C26_Witness ==
    /\ wpc = "failed" /\ werr = "AstcEncodeFailed"
    /\ Len(images) = 2 /\ Len(codec_blobs) = 1
    /\ file = OldFile
    /\ dpc = "done"


\* The MetaBlock fields of a container as its bytes spell them.
WidthOf(bytes) == bytes[7] * 256 + bytes[8]
HeightOf(bytes) == bytes[9] * 256 + bytes[10]
\* The frame set has a count, a width or a height above 65535.
Overflowing ==
    \/ Len(images) > U16_MAX
    \/ images # <<>> /\ (images[1].width > U16_MAX \/ images[1].height > U16_MAX)

\* C27: with a known format name and frames of one size, a frame count, a
\* width or a height above 65535 makes create_ffab_file_v1 fail with
\* struct.error while packing the MetaBlock: no frame is compressed and the
\* output path is not opened; every container written spells its frame
\* count, width and height in full, never modulo 2^16.
C27_OverflowRejected ==
    /\ (wpc # "idle" /\ Overflowing) =>
           /\ wpc = "failed" /\ werr = "StructError"
           /\ codec_blobs = <<>> /\ image_data_blocks = <<>>
           /\ file \in {NoFile, OldFile}
    /\ wpc \in {"header", "meta", "index", "data", "done"} => ~Overflowing
    /\ Written =>
           /\ FrameCountOf(file.bytes) = Len(images)
           /\ WidthOf(file.bytes) = images[1].width
           /\ HeightOf(file.bytes) = images[1].height

\* A frame 65536 rows tall rejected by the tools encoder with the old
\* container left in place.
C27_Witness ==
    /\ Len(images) = 1 /\ images[1].height = U16_MAX + 1
    /\ variant = "tools"
    /\ Overflowing
    /\ wpc = "failed" /\ werr = "StructError"
    /\ codec_blobs = <<>>
    /\ file = OldFile


\* C28: decode_ffab_file saves frames one at a time in index order and never
\* removes one: when the codec fails on frame k exactly the frames 0..k-1
\* have been saved, and when the header, the MetaBlock, the format code or
\* the index table is rejected no frame has been read or saved.
C28_PrefixOnFailure ==
    /\ [][/\ Len(d_saved') >= Len(d_saved)
          /\ SubSeq(d_saved', 1, Len(d_saved)) = d_saved]_vars
    /\ [](d_saved = [i \in 1..Len(d_saved) |-> i - 1])
    /\ [](dpc = "failed" =>
             IF derr = "AstcDecodeFailed"
             THEN /\ Len(d_compressed) >= 1
                  /\ Len(d_saved) = Len(d_compressed) - 1
             ELSE d_saved = <<>> /\ d_compressed = <<>>)

\* The codec fails on frame 1 of two: frame_0000.png alone has been saved.
C28_Witness ==
    /\ dpc = "failed" /\ derr = "AstcDecodeFailed"
    /\ Len(d_index) = 2 /\ Len(d_compressed) = 2
    /\ d_saved = <<0>>


\* The entry names in ascending order, written out: 10.png, 2.png, B.PNG,
\* a.jpeg, x.jpg.
NameOrder ==
    <<<<49, 48, 46, 112, 110, 103>>, <<50, 46, 112, 110, 103>>,
      <<66, 46, 80, 78, 71>>, <<97, 46, 106, 112, 101, 103>>,
      <<120, 46, 106, 112, 103>>>>
Rank(name) == CHOOSE r \in 1..Len(NameOrder) : NameOrder[r] = name
\* The names whose suffix is none of .png, .jpg, .jpeg in any case: a.txt,
\* .png (a name, not a suffix) and d.
UnsupportedNames == {<<97, 46, 116, 120, 116>>, <<46, 112, 110, 103>>, <<100>>}
FolderNameSet == {folder.entries[i].name : i \in 1..Len(folder.entries)}
FolderRejected ==
    \/ ~folder.exists
    \/ folder.entries = <<>>
    \/ FolderNameSet \cap UnsupportedNames # {}

\* C29: whatever order the folder is listed in, the frames main hands to
\* create_ffab_file_v1 are the folder's entries in ascending name order, and
\* frame i of the written container is the i-th of them; a missing folder,
\* an empty one, or one with an entry whose suffix is not .png, .jpg or .jpeg
\* (in any case) makes the run fail with nothing loaded, nothing compressed
\* and the output path left as it was.
C29_FolderOrder ==
    wpc # "idle" =>
        /\ FolderRejected =>
               /\ wpc = "failed"
               /\ werr \in {"FolderNotFound", "EmptyFolder", "UnsupportedFormat"}
               /\ images = <<>> /\ codec_blobs = <<>>
               /\ file \in {NoFile, OldFile}
        /\ (~FolderRejected /\ werr # "ImageLoadFailed") =>
               /\ Len(images) = Len(folder.entries)
               /\ {images[i].name : i \in 1..Len(images)} = FolderNameSet
               /\ \A i, j \in 1..Len(images) :
                      i < j => Rank(images[i].name) < Rank(images[j].name)
        /\ werr = "ImageLoadFailed" =>
               /\ wpc = "failed"
               /\ images = <<>> /\ codec_blobs = <<>>
               /\ file \in {NoFile, OldFile}
        /\ Written =>
               /\ FrameCountOf(file.bytes) = Len(folder.entries)
               /\ \A i \in 1..Len(images) :
                      LET block == FileRead(file.bytes, OffsetOf(file.bytes, i),
                                            LengthOf(file.bytes, i))
                      IN block # <<>> /\ block[Len(block)] = images[i].name[1]

\* The folder lists a.jpeg, B.PNG, 10.png in that order; the container holds
\* 10.png, B.PNG, a.jpeg.
C29_Witness ==
    /\ Written
    /\ Len(folder.entries) = 3
    /\ folder.entries[1].name = <<97, 46, 106, 112, 101, 103>>
    /\ folder.entries[2].name = <<66, 46, 80, 78, 71>>
    /\ images[1].name = <<49, 48, 46, 112, 110, 103>>
    /\ images[2].name = <<66, 46, 80, 78, 71>>
    /\ images[3].name = <<97, 46, 106, 112, 101, 103>>
    /\ file.bytes[Len(file.bytes)] = 97

====
